---- MODULE Spec2Model ----
(***************************************************************************)
(* Model of the MCCI LTR-329ALS driver: the register codec                 *)
(* (mcci_ltr_329als_regs.h) and the measurement state machine              *)
(* (mcci_ltr_329als.cpp, mcci_ltr_329als.h).                               *)
(*                                                                         *)
(* The driver instance is the record drv; the I2C bus and the device are   *)
(* the environment: every bus transaction has a nondeterministic outcome   *)
(* and every register read delivers a byte chosen from a small set.        *)
(*                                                                         *)
(* Time.  millis() and ms_t are 32-bit unsigned.  A value v is represented *)
(* by the integer congruent to v modulo 2^32 that lies in [-2^31, 2^31):   *)
(* the counter wraps from -1 (0xFFFFFFFF) to 0.  All times of the model    *)
(* lie within MaxClock of the wrap, so a difference a - b of two           *)
(* represented times is the unsigned 32-bit difference when it is >= 0,    *)
(* and that difference minus 2^32 when it is < 0.                          *)
(***************************************************************************)
EXTENDS Integers, Sequences, FiniteSets, TLC

VARIABLES
    drv,        \* the Ltr_329als instance (its data members)
    clock,      \* what millis() returns now
    call,       \* the public call made by the last step (operation, arguments,
                \* results); op = "tick" when the last step only let time pass
    log,        \* the bus transactions issued by that call
    devContr,   \* the device: last value successfully written to ALS_CONTR
    hardFailed, \* history: "timeout" or "bus" once queryReady hit that hard error,
                \* "no" again when a begin() returns true
    cfgd,       \* history: the arguments <<g, r, t>> of the last configure() that
                \* succeeded (begin() makes one), <<0, 0, 0>> before the first
    lastPoll,   \* history: <<t>> when the last read of ALS_STATUS was issued at
                \* time t, <<>> before the first
    ncalls,     \* history: the number of public calls made so far
    meas,       \* history: the measurement started last ("none" before the first,
                \* then "single" or "continuous") and the number of queryReady
                \* calls that returned true since it was started, counted up to 2
    img,        \* the register codec on its own: the operation applied last, the
                \* register image v it was applied to, its arguments, its results
    pc          \* the caller: "free" (any call at any time) or a place in the example's loop

vars == <<drv, clock, call, log, devContr, hardFailed, cfgd, lastPoll, ncalls, meas,
          img, pc>>

-----------------------------------------------------------------------------
(* Bounds of the model *)

\* the caller makes at most this many public calls
MaxCalls == 4
\* the clock is not advanced beyond this value
MaxClock == 80
\* the clock starts this many milliseconds before the 32-bit counter wraps
WrapLead == 150
\* a delay loop is followed for at most this many milliseconds
MaxWait == 120
\* the polling caller makes at most this many public calls
MaxPollCalls == 6
\* the polling caller follows a measurement for at most this many milliseconds
MaxElapsed == 130
\* the persistent caller follows a measurement for at most this many
\* milliseconds: more than twice the longest integration time recorded
MaxLiveElapsed == 260
\* the caller that keeps asking after a result makes at most this many public
\* calls
MaxShotCalls == 6

\* amounts of time the caller lets pass between two calls (calls that follow
\* each other without a Tick fall into the same millisecond)
Delays == {10, 50}
\* the same for the polling caller
PollDelays == {3, 10, 47}
\* the polling caller starts this many milliseconds before the counter wraps:
\* no wrap before the caller stops, a wrap inside begin(), a wrap inside the
\* first measurement
PollLeads == {0 - 400, 60, 150}

\* bytes the device may return
IdBytes == {<<161, 5>>, <<80, 5>>, <<161, 6>>}      \* <<PART_ID, MANUFAC_ID>>
StatusBytes == {0, 128, 132, 116}
DataBytes == {<<100, 0, 232, 3>>}

\* arguments the caller passes to configure(): <<gain, rate, integration>>
ConfigArgs == {<<96, 500, 400>>, <<3, 1000, 100>>, <<8, 50, 100>>}

\* the arguments of configure() tried in every state: the values the register
\* fields encode, their neighbours and the ends of the argument types
CfgGains == {0, 1, 2, 3, 4, 8, 16, 48, 96, 97, 255}
CfgRates == {0, 50, 100, 200, 500, 1000, 2000, 2001}
CfgTimes == {0, 50, 100, 150, 200, 250, 300, 350, 400, 401}

\* the register images the codec is applied to: every byte
Images == 0..255

\* the arguments of isRateValid and isIntegrationValid: everything up to the
\* largest integration time and a little more, the neighbours of the larger
\* rates, and values above 16 bits that are a table entry after truncation
ValidityInputs ==
    (0..450) \cup {499, 500, 501, 999, 1000, 1001, 1999, 2000, 2001, 9999, 65535}
    \cup {65536 + 50, 65536 + 400, 65536 + 2000, 2000 + 524288}

\* channel counts <<ch0, ch1>> given to luxComputation: the counts up to 20
\* (with the ratios 9/20, 16/25 and 17/20 among them), larger counts on and
\* beside the thresholds, and the pair of the header's test
LuxChannels ==
    ((0..20) \X (0..20))
    \cup {<<55, 45>>, <<56, 45>>, <<36, 64>>, <<37, 64>>, <<15, 85>>, <<16, 85>>,
          <<100, 0>>, <<1000, 100>>}

\* <<gain, integration time>> given to luxComputation
LuxSettings == {1, 2, 4, 8, 48, 96} \X {50, 100, 150, 200, 250, 300, 350, 400}

\* capture buffers given to computeLux: the data bytes and the ALS_MEAS_RATE
\* image recorded with them (the status byte is any byte)
LuxCaptures == ({<<0, 0, 0, 0>>} \cup DataBytes) \X {0, 8, 27}

\* values found in the members no code ever assigns, <<m_userRate, m_userIntegration>>:
\* zero (static storage) or anything else
UserMembers == {<<0, 0>>, <<1000, 150>>}

-----------------------------------------------------------------------------
(* Bit operations on bytes *)

\* bit i of x
Bit(x, i) == (x \div (2 ^ i)) % 2

\* a & b and a | b on the low 8 bits of a and b
BitAnd(a, b) ==
    Bit(a, 0) * Bit(b, 0) + 2 * Bit(a, 1) * Bit(b, 1) + 4 * Bit(a, 2) * Bit(b, 2)
    + 8 * Bit(a, 3) * Bit(b, 3) + 16 * Bit(a, 4) * Bit(b, 4) + 32 * Bit(a, 5) * Bit(b, 5)
    + 64 * Bit(a, 6) * Bit(b, 6) + 128 * Bit(a, 7) * Bit(b, 7)

BitOr(a, b) == (a % 256) + (b % 256) - BitAnd(a, b)

\* ~m for a std::uint8_t mask, as used under &: the low 8 bits suffice because
\* the other operand is a byte
BitNot8(m) == 255 - m

ToU8(x) == x % 256

BoolToInt(b) == IF b THEN 1 ELSE 0

-----------------------------------------------------------------------------
(* LTR_329ALS_PARAMS: registers, masks, delays *)

ALS_CONTR == 128
ALS_MEAS_RATE == 133
PART_ID == 134
MANUFAC_ID == 135
ALS_DATA_CH1_0 == 136
ALS_STATUS == 140

ALS_CONTR_MODE == 1
ALS_CONTR_RESET == 2
ALS_CONTR_GAIN == 28
ALS_MEAS_RATE_RATE == 3
ALS_MEAS_RATE_TIME == 24
PART_ID_PARTNUM == 240
ALS_STATUS_NEW == 4
ALS_STATUS_GAIN == 112
ALS_STATUS_INVALID == 128

getInitialDelayMs == 100
getWakeupDelayMs == 10

kPartID == 10
kManufacID == 5

kInitialGain == 1
kInitialIntegrationTime == 100
kInitialMeasurementRate == 1000

\* queryReady: minimum distance of two status polls, in ms
PollInterval == 10
\* startMeasurement(fSingle = true): the repeat rate forced for a single measurement
SingleRate == 2000

(* Field_t *)

fieldlsb(fmask) == BitAnd(fmask, ToU8(BitNot8(fmask) + 1))

fieldget(fmask, val) == BitAnd(val, fmask) \div fieldlsb(fmask)

fieldset(fmask, val, fv) ==
    ToU8(BitOr(BitAnd(val, BitNot8(fmask)), fv * fieldlsb(fmask)))

(* AlsGain_t *)

\* gain codes numbered in the order of the gains
gainToBits_linear(g) ==
    CASE g = 1 -> 0
      [] g = 2 -> 1
      [] g = 4 -> 2
      [] g = 8 -> 3
      [] g = 48 -> 4
      [] g = 96 -> 5
      [] OTHER -> 8

gainToBits(g) ==
    CASE g = 1 -> 0
      [] g = 2 -> 1
      [] g = 4 -> 2
      [] g = 8 -> 3
      [] g = 48 -> 6
      [] g = 96 -> 7
      [] OTHER -> 8

isGainValid(g) == gainToBits(ToU8(g)) < 8

\* bitsToGain that has no gain for the codes the hardware does not define
bitsToGain_zeroDefault(gbits) ==
    CASE gbits = 0 -> 1
      [] gbits = 1 -> 2
      [] gbits = 2 -> 4
      [] gbits = 3 -> 8
      [] gbits = 6 -> 48
      [] gbits = 7 -> 96
      [] OTHER -> 0

bitsToGain(gbits) ==
    CASE gbits = 0 -> 1
      [] gbits = 1 -> 2
      [] gbits = 2 -> 4
      [] gbits = 3 -> 8
      [] gbits = 6 -> 48
      [] gbits = 7 -> 96
      [] OTHER -> 1

(* AlsContr_t *)

AlsContr_setActive(v, fActive) == fieldset(ALS_CONTR_MODE, v, BoolToInt(fActive))
AlsContr_getActive(v) == fieldget(ALS_CONTR_MODE, v) # 0
AlsContr_setReset(v, fReset) == fieldset(ALS_CONTR_RESET, v, BoolToInt(fReset))
AlsContr_getReset(v) == fieldget(ALS_CONTR_RESET, v) # 0
AlsContr_setGain(v, g) == fieldset(ALS_CONTR_GAIN, v, BitAnd(gainToBits(g), 7))
AlsContr_getGain(v) == bitsToGain(fieldget(ALS_CONTR_GAIN, v))

(* AlsMeasRate_t *)

ToU16(x) == x % 65536

rateToBits(rate) ==
    IF rate <= 50 THEN 0
    ELSE IF rate <= 100 THEN 1
    ELSE IF rate <= 200 THEN 2
    ELSE IF rate <= 500 THEN 3
    ELSE IF rate <= 1000 THEN 4
    ELSE 5

bitsToRate(bits) ==
    CASE bits = 0 -> 50
      [] bits = 1 -> 100
      [] bits = 2 -> 200
      [] bits = 3 -> 500
      [] bits = 4 -> 1000
      [] 5 <= bits /\ bits <= 7 -> 2000
      [] OTHER -> 500

\* isRateValid that compares with the truncated argument
isRateValid_truncated(rate) == bitsToRate(rateToBits(ToU16(rate))) = ToU16(rate)

isRateValid(rate) == bitsToRate(rateToBits(ToU16(rate))) = rate

integrationToBits(iTime) ==
    IF iTime <= 50 THEN 1
    ELSE IF iTime <= 100 THEN 0
    ELSE IF iTime <= 150 THEN 4
    ELSE IF iTime <= 200 THEN 2
    ELSE IF iTime <= 250 THEN 5
    ELSE IF iTime <= 300 THEN 6
    ELSE IF iTime <= 350 THEN 7
    ELSE IF iTime <= 400 THEN 3
    ELSE 0

bitsToIntegration(bits) ==
    CASE bits = 0 -> 100
      [] bits = 1 -> 50
      [] bits = 2 -> 200
      [] bits = 3 -> 400
      [] bits = 4 -> 150
      [] bits = 5 -> 250
      [] bits = 6 -> 300
      [] bits = 7 -> 350
      [] OTHER -> 100

isIntegrationValid(iTime) == bitsToIntegration(integrationToBits(ToU16(iTime))) = iTime

AlsMeasRate_setRate(v, rate) == fieldset(ALS_MEAS_RATE_RATE, v, rateToBits(rate))
AlsMeasRate_getRate(v) == bitsToRate(fieldget(ALS_MEAS_RATE_RATE, v))
AlsMeasRate_setIntegration(v, iTime) == fieldset(ALS_MEAS_RATE_TIME, v, integrationToBits(iTime))
AlsMeasRate_getIntegration(v) == bitsToIntegration(fieldget(ALS_MEAS_RATE_TIME, v))

(* PartID_t, ManufacID_t *)

PartID_getPartID(v) == fieldget(PART_ID_PARTNUM, v)
ManufacID_getManufacID(v) == v

(* AlsStatus_t *)

AlsStatus_setNew(v, fNew) == fieldset(ALS_STATUS_NEW, v, BoolToInt(fNew))
AlsStatus_getNew(v) == BitAnd(v, ALS_STATUS_NEW) # 0
AlsStatus_setValid(v, fValid) == fieldset(ALS_STATUS_INVALID, v, BoolToInt(~fValid))
AlsStatus_getValid(v) == BitAnd(v, ALS_STATUS_INVALID) = 0
AlsStatus_setGain(v, g) == fieldset(ALS_STATUS_GAIN, v, BitAnd(gainToBits(g), 7))
AlsStatus_getGain(v) == bitsToGain(fieldget(ALS_STATUS_GAIN, v))

-----------------------------------------------------------------------------
(* ms_t arithmetic (see the note on time at the top) *)

\* the 32-bit unsigned value represented by s, as two 16-bit halves <<high, low>>
U32(s) == <<(s \div 65536) % 65536, s % 65536>>

\* x - y for 32-bit unsigned x and y given as halves: subtraction with borrow,
\* the result modulo 2^32
U32Sub(x, y) ==
    <<(x[1] - y[1] - (IF x[2] < y[2] THEN 1 ELSE 0)) % 65536, (x[2] - y[2]) % 65536>>

\* x < k and x > k for a 32-bit unsigned x given as halves and 0 <= k < 2^31
U32Less(x, k) == x[1] < 32768 /\ x[1] * 65536 + x[2] < k

U32Greater(x, k) == x[1] >= 32768 \/ x[1] * 65536 + x[2] > k

\* the comparison a < b + k of unsigned times, which a wrap between b and a breaks
ElapsedLess_noWrap(a, b, k) ==
    \/ U32(a)[1] < U32(b + k)[1]
    \/ U32(a)[1] = U32(b + k)[1] /\ U32(a)[2] < U32(b + k)[2]

\* (a - b) < k for 32-bit unsigned a, b and 0 <= k < 2^31
ElapsedLess(a, b, k) == U32Less(U32Sub(U32(a), U32(b)), k)

\* (a - b) > k for 32-bit unsigned a, b and 0 <= k < 2^31
ElapsedMore(a, b, k) == U32Greater(U32Sub(U32(a), U32(b)), k)

\* the time at which a loop  while (millis() - start < delay) ;  entered at
\* time now is left: the first time at which its condition is false
WaitEnd(now, start, delay) ==
    now + CHOOSE w \in 0..MaxWait :
              /\ ~ElapsedLess(now + w, start, delay)
              /\ w = 0 \/ ElapsedLess(now + w - 1, start, delay)

-----------------------------------------------------------------------------
(* Ltr_329als: states, errors, members *)

States == {"Uninitialized", "End", "PowerOff", "PowerOn", "Initial", "Idle",
           "Single", "Continuous", "Ready"}

\* the position of a state in enum class State
StateOrd(s) ==
    CASE s = "Uninitialized" -> 0
      [] s = "End" -> 1
      [] s = "PowerOff" -> 2
      [] s = "PowerOn" -> 3
      [] s = "Initial" -> 4
      [] s = "Idle" -> 5
      [] s = "Single" -> 6
      [] s = "Continuous" -> 7
      [] s = "Ready" -> 8

WriteResults == {"ok", "I2cWriteBufferFailed", "I2cWriteFailed"}
ReadResults == {"ok", "I2cReadRequest", "I2cReadShort", "I2cReadLong"}

getState(d) == d.m_state

setState(d, s) == [d EXCEPT !.m_state = s]

\* isRunning with the boundary one state too high
isRunning_aboveIdle(d) == StateOrd(d.m_state) > StateOrd("Idle")

isRunning(d) == StateOrd(d.m_state) > StateOrd("End")

\* setLastError(e) for e /= Success: stores e; the call's value is false
setLastError(d, e) == [d EXCEPT !.m_lastError = e]

\* the result of a driver method: the instance, the bus log, the return value
Res(d, l, ret) == [d |-> d, log |-> l, ret |-> ret]

\* checkRunning that lets every state pass
checkRunning_always(d) == Res(d, <<>>, TRUE)

\* checkRunning that returns false without recording an error
checkRunning_silent(d) ==
    IF ~isRunning(d) THEN Res(d, <<>>, FALSE)
    ELSE Res(d, <<>>, TRUE)

checkRunning(d) ==
    IF ~isRunning(d) THEN Res(setLastError(d, "Uninitialized"), <<>>, FALSE)
    ELSE Res(d, <<>>, TRUE)

\* a step of a function body: v is the value of a local, G the code after it
Bind(v, G(_)) == G(v)

\* writeRegister(r, v) when the bus answers wr
writeRegister(d, l, r, v, wr) ==
    Bind(Append(l, [kind |-> "write", reg |-> r, val |-> v, data |-> <<>>, res |-> wr]),
         LAMBDA l2 :
    IF wr = "ok" THEN Res(d, l2, TRUE)
    ELSE Res(setLastError(d, wr), l2, FALSE))

\* the bytes readRegisters stores into pBuffer when the bus answers rd =
\* [res, data, got]: all of them, those of a short read, or none when the error
\* is found before the copy loop
readBuffer(nBuffer, rd) ==
    CASE rd.res = "ok" -> SubSeq(rd.data, 1, nBuffer)
      [] rd.res = "I2cReadShort" ->
            SubSeq(rd.data, 1, IF rd.got < nBuffer THEN rd.got ELSE nBuffer - 1)
      [] OTHER -> <<>>

\* readRegisters(r, pBuffer, nBuffer) when the bus answers rd; buf holds the
\* bytes stored into pBuffer.  The log entry of a read holds nBuffer in val and
\* the bytes stored in data.
readRegisters(d, l, r, nBuffer, rd) ==
    Bind(readBuffer(nBuffer, rd), LAMBDA buf :
    Bind(Append(l, [kind |-> "read", reg |-> r, val |-> nBuffer, data |-> buf,
                    res |-> rd.res]), LAMBDA l2 :
    IF nBuffer > 32
    THEN [d |-> setLastError(d, "InternalInvalidParameter"), log |-> l, ret |-> FALSE,
          buf |-> <<>>]
    ELSE IF rd.res = "ok" THEN [d |-> d, log |-> l2, ret |-> TRUE, buf |-> buf]
    ELSE [d |-> setLastError(d, rd.res), log |-> l2, ret |-> FALSE, buf |-> buf]))

readRegister(d, l, r, rd) == readRegisters(d, l, r, 1, rd)

\* readDataStatus that reads the status a second time when the read failed
readDataStatus_retry(d, l, rd) ==
    Bind(readRegister(d, l, ALS_STATUS, rd), LAMBDA c :
    IF ~c.ret
    THEN Bind(readRegister(c.d, c.log, ALS_STATUS, rd), LAMBDA c2 :
              Res(c2.d, c2.log, FALSE))
    ELSE Res([c.d EXCEPT !.m_status = c.buf[1]], c.log, TRUE))

\* readDataStatus(): m_status is replaced only by a successful read
readDataStatus(d, l, rd) ==
    Bind(readRegister(d, l, ALS_STATUS, rd), LAMBDA c :
    IF ~c.ret THEN Res(c.d, c.log, FALSE)
    ELSE Res([c.d EXCEPT !.m_status = c.buf[1]], c.log, TRUE))

\* readProductInfo that compares the part id only
readProductInfo_partOnly(d, l, rdPart, rdManu) ==
    Bind(readRegister(d, l, PART_ID, rdPart), LAMBDA c1 :
    IF ~c1.ret THEN Res(c1.d, c1.log, FALSE)
    ELSE
    Bind(readRegister(c1.d, c1.log, MANUFAC_ID, rdManu), LAMBDA c2 :
    IF ~c2.ret THEN Res(c2.d, c2.log, FALSE)
    ELSE
    Bind([c2.d EXCEPT !.m_partid = c1.buf[1], !.m_manufacid = c2.buf[1]], LAMBDA d3 :
    IF PartID_getPartID(d3.m_partid) # kPartID
    THEN Res(setLastError(d3, "PartIdMismatch"), c2.log, FALSE)
    ELSE Res(d3, c2.log, TRUE))))

readProductInfo(d, l, rdPart, rdManu) ==
    Bind(readRegister(d, l, PART_ID, rdPart), LAMBDA c1 :
    IF ~c1.ret THEN Res(c1.d, c1.log, FALSE)
    ELSE
    Bind(readRegister(c1.d, c1.log, MANUFAC_ID, rdManu), LAMBDA c2 :
    IF ~c2.ret THEN Res(c2.d, c2.log, FALSE)
    ELSE
    Bind([c2.d EXCEPT !.m_partid = c1.buf[1], !.m_manufacid = c2.buf[1]], LAMBDA d3 :
    IF PartID_getPartID(d3.m_partid) # kPartID
       \/ ManufacID_getManufacID(d3.m_manufacid) # kManufacID
    THEN Res(setLastError(d3, "PartIdMismatch"), c2.log, FALSE)
    ELSE Res(d3, c2.log, TRUE))))

reset(d, l, wr) ==
    writeRegister(setState(d, "Uninitialized"), l, ALS_CONTR,
                  AlsContr_setReset(0, TRUE), wr)

\* setStandby that leaves the state alone when the write succeeded
setStandby_keepsState(d, l, wr) ==
    Bind([d EXCEPT !.m_control = AlsContr_setActive(d.m_control, FALSE)], LAMBDA d1 :
    Bind(writeRegister(d1, l, ALS_CONTR, d1.m_control, wr), LAMBDA c :
    Res(IF c.ret THEN c.d ELSE setState(c.d, "Uninitialized"), c.log, c.ret)))

\* setStandby that writes the control image as it is
setStandby_keepsActive(d, l, wr) ==
    Bind(writeRegister(d, l, ALS_CONTR, d.m_control, wr), LAMBDA c :
    Res(setState(c.d, IF c.ret THEN "Idle" ELSE "Uninitialized"), c.log, c.ret))

\* m_control.setActive(false) changes m_control itself
\* setStandby that writes a cleared control register
setStandby_dropsGain(d, l, wr) ==
    Bind([d EXCEPT !.m_control = 0], LAMBDA d1 :
    Bind(writeRegister(d1, l, ALS_CONTR, d1.m_control, wr), LAMBDA c :
    Res(setState(c.d, IF c.ret THEN "Idle" ELSE "Uninitialized"), c.log, c.ret)))

setStandby(d, l, wr) ==
    Bind([d EXCEPT !.m_control = AlsContr_setActive(d.m_control, FALSE)], LAMBDA d1 :
    Bind(writeRegister(d1, l, ALS_CONTR, d1.m_control, wr), LAMBDA c :
    Res(setState(c.d, IF c.ret THEN "Idle" ELSE "Uninitialized"), c.log, c.ret)))

\* configure without the comparison of the rate with the integration time
configure_noOrderCheck(d, g, r, iTime) ==
    IF ~(isGainValid(g) /\ isRateValid(r) /\ isIntegrationValid(iTime))
    THEN Res(setLastError(d, "InvalidParameter"), <<>>, FALSE)
    ELSE IF getState(d) = "Single" \/ getState(d) = "Continuous"
    THEN Res(setLastError(d, "Busy"), <<>>, FALSE)
    ELSE Res([d EXCEPT
                !.m_control = AlsContr_setGain(d.m_control, g),
                !.m_measrate = AlsMeasRate_setIntegration(
                                   AlsMeasRate_setRate(0, d.m_userRate),
                                   d.m_userIntegration)],
             <<>>, TRUE)

\* configure without the test for a measurement in progress
configure_noBusyCheck(d, g, r, iTime) ==
    IF ~(isGainValid(g) /\ isRateValid(r) /\ isIntegrationValid(iTime))
    THEN Res(setLastError(d, "InvalidParameter"), <<>>, FALSE)
    ELSE IF r < iTime
    THEN Res(setLastError(d, "InvalidParameter"), <<>>, FALSE)
    ELSE Res([d EXCEPT
                !.m_control = AlsContr_setGain(d.m_control, g),
                !.m_measrate = AlsMeasRate_setIntegration(
                                   AlsMeasRate_setRate(0, d.m_userRate),
                                   d.m_userIntegration)],
             <<>>, TRUE)

\* configure that also writes the measurement-rate image to the device
configure_writesRate(d, g, r, iTime) ==
    IF ~(isGainValid(g) /\ isRateValid(r) /\ isIntegrationValid(iTime))
    THEN Res(setLastError(d, "InvalidParameter"), <<>>, FALSE)
    ELSE IF r < iTime
    THEN Res(setLastError(d, "InvalidParameter"), <<>>, FALSE)
    ELSE IF getState(d) = "Single" \/ getState(d) = "Continuous"
    THEN Res(setLastError(d, "Busy"), <<>>, FALSE)
    ELSE Bind([d EXCEPT
                 !.m_control = AlsContr_setGain(d.m_control, g),
                 !.m_measrate = AlsMeasRate_setIntegration(
                                    AlsMeasRate_setRate(0, d.m_userRate),
                                    d.m_userIntegration)],
              LAMBDA d1 : writeRegister(d1, <<>>, ALS_MEAS_RATE, d1.m_measrate, "ok"))

configure(d, g, r, iTime) ==
    IF ~(isGainValid(g) /\ isRateValid(r) /\ isIntegrationValid(iTime))
    THEN Res(setLastError(d, "InvalidParameter"), <<>>, FALSE)
    ELSE IF r < iTime
    THEN Res(setLastError(d, "InvalidParameter"), <<>>, FALSE)
    ELSE IF getState(d) = "Single" \/ getState(d) = "Continuous"
    THEN Res(setLastError(d, "Busy"), <<>>, FALSE)
    ELSE Res([d EXCEPT
                !.m_control = AlsContr_setGain(d.m_control, g),
                !.m_measrate = AlsMeasRate_setIntegration(
                                   AlsMeasRate_setRate(0, d.m_userRate),
                                   d.m_userIntegration)],
             <<>>, TRUE)

\* end() returns nothing; ret is TRUE throughout
\* end() that stops after the standby
end_noEndState(d, wr) ==
    Bind(setStandby(IF isRunning(d) THEN setState(d, "Uninitialized") ELSE d, <<>>, wr),
         LAMBDA c : Res(c.d, c.log, TRUE))

end(d, wr) ==
    Bind(setStandby(IF isRunning(d) THEN setState(d, "Uninitialized") ELSE d, <<>>, wr),
         LAMBDA c :
    IF c.ret THEN Res(setState(c.d, "End"), c.log, TRUE)
    ELSE Res(c.d, c.log, TRUE))

\* the result of begin(): clk is the time at which it returns, cfg tells
\* whether its configure() call succeeded
BRes(d, l, ret, clk, cfg) == [d |-> d, log |-> l, ret |-> ret, clk |-> clk, cfg |-> cfg]

\* begin() called at time now; t1 is the time at which the first delay loop is
\* left.  m_wire is bound by the constructor to a reference and is never
\* null.
begin(d, now, rdPart, rdManu, wrReset) ==
    IF isRunning(d) THEN BRes(d, <<>>, TRUE, now, FALSE)
    ELSE
    Bind(readProductInfo(d, <<>>, rdPart, rdManu), LAMBDA p :
    IF ~(p.ret /\ getState(p.d) = "Uninitialized")
    THEN BRes(p.d, p.log, p.ret, now, FALSE)
    ELSE
    Bind(reset(p.d, p.log, wrReset), LAMBDA r :
    IF ~r.ret THEN BRes(r.d, r.log, FALSE, now, FALSE)
    ELSE
    Bind(WaitEnd(now, now, getInitialDelayMs), LAMBDA t1 :
    Bind(configure(setState([r.d EXCEPT !.m_startTime = now,
                                        !.m_delay = getInitialDelayMs], "Initial"),
                   kInitialGain, kInitialMeasurementRate, kInitialIntegrationTime),
         LAMBDA cf :
    IF ~cf.ret
    THEN BRes(setState(cf.d, "Uninitialized"), r.log, FALSE, t1, FALSE)
    ELSE BRes(setState([cf.d EXCEPT !.m_startTime = t1,
                                    !.m_delay = getWakeupDelayMs], "Idle"),
              r.log, p.ret, WaitEnd(t1, t1, getWakeupDelayMs), TRUE)))))

\* DataRegs_t::init()
DataRegs_initStatus == AlsStatus_setNew(AlsStatus_setValid(0, FALSE), FALSE)

\* startMeasurement(fSingle) at time now, from the computation of measrate on.
\* When the write of ALS_CONTR fails the function ends without a return
\* statement: its value is whatever the build leaves in the return register,
\* ubRet.
startMeasurementIdle(d, now, fSingle, wrRate, wrContr, ubRet) ==
    Bind(IF fSingle THEN AlsMeasRate_setRate(d.m_measrate, SingleRate) ELSE d.m_measrate,
         LAMBDA measrate :
    Bind([d EXCEPT !.m_control =
              AlsContr_setReset(AlsContr_setActive(d.m_control, TRUE), FALSE)],
         LAMBDA d1 :
    Bind(writeRegister(d1, <<>>, ALS_MEAS_RATE, measrate, wrRate), LAMBDA w1 :
    IF ~w1.ret THEN Res(w1.d, w1.log, FALSE)
    ELSE
    Bind(writeRegister(w1.d, w1.log, ALS_CONTR, w1.d.m_control, wrContr), LAMBDA w2 :
    IF w2.ret
    THEN Res([w2.d EXCEPT
                !.m_startTime = now,
                !.m_pollTime = now,
                !.m_data = <<0, 0, 0, 0>>,
                !.m_rawStatus = DataRegs_initStatus,
                !.m_rawMeasrate = measrate,
                !.m_state = IF fSingle THEN "Single" ELSE "Continuous"],
             w2.log, TRUE)
    ELSE Res(w2.d, w2.log, ubRet)))))

\* startMeasurement without the test of the state
startMeasurement_noGuard(d, now, fSingle, wrRate, wrContr, ubRet) ==
    Bind(checkRunning(d), LAMBDA chk :
    IF ~chk.ret THEN chk
    ELSE startMeasurementIdle(d, now, fSingle, wrRate, wrContr, ubRet))

\* startMeasurement without any test before the writes
startMeasurement_unguarded(d, now, fSingle, wrRate, wrContr, ubRet) ==
    startMeasurementIdle(d, now, fSingle, wrRate, wrContr, ubRet)

startMeasurement(d, now, fSingle, wrRate, wrContr, ubRet) ==
    Bind(checkRunning(d), LAMBDA chk :
    IF ~chk.ret THEN chk
    ELSE IF getState(d) = "Single" THEN Res(d, <<>>, TRUE)
    ELSE IF getState(d) # "Idle" THEN Res(setLastError(d, "Busy"), <<>>, FALSE)
    ELSE startMeasurementIdle(d, now, fSingle, wrRate, wrContr, ubRet))

DataRegs_getIntegrationTime(d) == AlsMeasRate_getIntegration(d.m_rawMeasrate)

\* the bytes of m_data after a copy of buf into its first Len(buf) places
StoreData(old, buf) == [i \in 1..4 |-> IF i <= Len(buf) THEN buf[i] ELSE old[i]]

\* a queryReady result: fError is the caller's variable after the call (fErrIn
\* when the call did not assign it), fSet tells whether the call assigned it
QRes(d, l, ret, fError, fSet) ==
    [d |-> d, log |-> l, ret |-> ret, fError |-> fError, fSet |-> fSet]

\* the timeout branch without the change of state
queryReadyNotReady_keepsState(polled, now, l) ==
    IF ElapsedMore(now, polled.m_startTime, 2 * DataRegs_getIntegrationTime(polled))
    THEN QRes(setLastError(polled, "TimedOut"), l, FALSE, TRUE, TRUE)
    ELSE QRes(setLastError(polled, "Busy"), l, FALSE, FALSE, TRUE)

\* the branch taken when the status is not new and valid, without the timeout
queryReadyNotReady_noTimeout(polled, now, l) ==
    QRes(setLastError(polled, "Busy"), l, FALSE, FALSE, TRUE)

\* queryReady, the status is not new and valid: time out or report busy
queryReadyNotReady(polled, now, l) ==
    IF ElapsedMore(now, polled.m_startTime, 2 * DataRegs_getIntegrationTime(polled))
    THEN QRes(setLastError(setState(polled, "Uninitialized"), "TimedOut"),
              l, FALSE, TRUE, TRUE)
    ELSE QRes(setLastError(polled, "Busy"), l, FALSE, FALSE, TRUE)

\* queryReadyData that leaves the start time alone in continuous mode
queryReadyData_noRearm(polled, now, l, fErrIn, rdData, wrStandby) ==
    Bind(readRegisters(polled, l, ALS_DATA_CH1_0, 4, rdData), LAMBDA rr :
    Bind([rr.d EXCEPT !.m_data = StoreData(polled.m_data, rr.buf)], LAMBDA rrd :
    IF ~rr.ret THEN QRes(setState(rrd, "Uninitialized"), rr.log, FALSE, fErrIn, FALSE)
    ELSE
    Bind([rrd EXCEPT !.m_rawStatus = polled.m_status], LAMBDA got :
    IF getState(got) = "Single"
    THEN Bind(setStandby(got, rr.log, wrStandby), LAMBDA sb :
              QRes(sb.d, sb.log, sb.ret, fErrIn, FALSE))
    ELSE QRes(got, rr.log, TRUE, fErrIn, FALSE))))

\* queryReadyData that enters state Ready once the data are captured
queryReadyData_entersReady(polled, now, l, fErrIn, rdData, wrStandby) ==
    Bind(readRegisters(polled, l, ALS_DATA_CH1_0, 4, rdData), LAMBDA rr :
    Bind([rr.d EXCEPT !.m_data = StoreData(polled.m_data, rr.buf)], LAMBDA rrd :
    IF ~rr.ret THEN QRes(setState(rrd, "Uninitialized"), rr.log, FALSE, fErrIn, FALSE)
    ELSE
    Bind([rrd EXCEPT !.m_rawStatus = polled.m_status], LAMBDA got :
    IF getState(got) = "Single"
    THEN Bind(setStandby(got, rr.log, wrStandby), LAMBDA sb :
              QRes(sb.d, sb.log, sb.ret, fErrIn, FALSE))
    ELSE QRes(setState([got EXCEPT !.m_startTime = now, !.m_pollTime = now], "Ready"),
              rr.log, TRUE, fErrIn, FALSE))))

\* queryReady, the status is new and valid: read the data; in single mode put
\* the device in standby, in continuous mode restart the timers
queryReadyData(polled, now, l, fErrIn, rdData, wrStandby) ==
    Bind(readRegisters(polled, l, ALS_DATA_CH1_0, 4, rdData), LAMBDA rr :
    Bind([rr.d EXCEPT !.m_data = StoreData(polled.m_data, rr.buf)], LAMBDA rrd :
    IF ~rr.ret THEN QRes(setState(rrd, "Uninitialized"), rr.log, FALSE, fErrIn, FALSE)
    ELSE
    Bind([rrd EXCEPT !.m_rawStatus = polled.m_status], LAMBDA got :
    IF getState(got) = "Single"
    THEN Bind(setStandby(got, rr.log, wrStandby), LAMBDA sb :
              QRes(sb.d, sb.log, sb.ret, fErrIn, FALSE))
    ELSE QRes([got EXCEPT !.m_startTime = now, !.m_pollTime = now],
              rr.log, TRUE, fErrIn, FALSE))))

\* queryReady during a measurement without the wait for the integration time
queryReadyMeasuring_noWait(d, now, fErrIn, rdStatus, rdData, wrStandby) ==
    IF ElapsedLess(now, d.m_pollTime, PollInterval)
    THEN QRes(setLastError(d, "Busy"), <<>>, FALSE, FALSE, TRUE)
    ELSE
    Bind(readDataStatus(d, <<>>, rdStatus), LAMBDA st :
    IF ~st.ret
    THEN QRes(setState(st.d, "Uninitialized"), st.log, FALSE, fErrIn, FALSE)
    ELSE
    Bind([st.d EXCEPT !.m_pollTime = now], LAMBDA polled :
    IF ~(AlsStatus_getNew(polled.m_status) /\ AlsStatus_getValid(polled.m_status))
    THEN queryReadyNotReady(polled, now, st.log)
    ELSE queryReadyData(polled, now, st.log, fErrIn, rdData, wrStandby)))

\* queryReady during a measurement without the limit on the rate of polling
queryReadyMeasuring_noRateLimit(d, now, fErrIn, rdStatus, rdData, wrStandby) ==
    IF ElapsedLess(now, d.m_startTime, DataRegs_getIntegrationTime(d))
    THEN QRes(setLastError([d EXCEPT !.m_pollTime = now - PollInterval], "Busy"),
              <<>>, FALSE, FALSE, TRUE)
    ELSE
    Bind(readDataStatus(d, <<>>, rdStatus), LAMBDA st :
    IF ~st.ret
    THEN QRes(setState(st.d, "Uninitialized"), st.log, FALSE, fErrIn, FALSE)
    ELSE
    Bind([st.d EXCEPT !.m_pollTime = now], LAMBDA polled :
    IF ~(AlsStatus_getNew(polled.m_status) /\ AlsStatus_getValid(polled.m_status))
    THEN queryReadyNotReady(polled, now, st.log)
    ELSE queryReadyData(polled, now, st.log, fErrIn, rdData, wrStandby)))

\* queryReady, a measurement is in progress
queryReadyMeasuring(d, now, fErrIn, rdStatus, rdData, wrStandby) ==
    IF ElapsedLess(now, d.m_startTime, DataRegs_getIntegrationTime(d))
    THEN QRes(setLastError([d EXCEPT !.m_pollTime = now - PollInterval], "Busy"),
              <<>>, FALSE, FALSE, TRUE)
    ELSE IF ElapsedLess(now, d.m_pollTime, PollInterval)
    THEN QRes(setLastError(d, "Busy"), <<>>, FALSE, FALSE, TRUE)
    ELSE
    Bind(readDataStatus(d, <<>>, rdStatus), LAMBDA st :
    IF ~st.ret
    THEN QRes(setState(st.d, "Uninitialized"), st.log, FALSE, fErrIn, FALSE)
    ELSE
    Bind([st.d EXCEPT !.m_pollTime = now], LAMBDA polled :
    IF ~(AlsStatus_getNew(polled.m_status) /\ AlsStatus_getValid(polled.m_status))
    THEN queryReadyNotReady(polled, now, st.log)
    ELSE queryReadyData(polled, now, st.log, fErrIn, rdData, wrStandby)))

\* queryReady that answers "busy" when no measurement was started
queryReady_idleBusy(d, now, fErrIn, rdStatus, rdData, wrStandby) ==
    Bind(checkRunning(d), LAMBDA chk :
    IF ~chk.ret THEN QRes(chk.d, <<>>, FALSE, TRUE, TRUE)
    ELSE IF getState(d) = "Ready" THEN QRes(d, <<>>, TRUE, FALSE, TRUE)
    ELSE IF getState(d) = "Single" \/ getState(d) = "Continuous"
    THEN queryReadyMeasuring(d, now, fErrIn, rdStatus, rdData, wrStandby)
    ELSE QRes(setLastError(d, "Busy"), <<>>, FALSE, FALSE, TRUE))

queryReady(d, now, fErrIn, rdStatus, rdData, wrStandby) ==
    Bind(checkRunning(d), LAMBDA chk :
    IF ~chk.ret THEN QRes(chk.d, <<>>, FALSE, TRUE, TRUE)
    ELSE IF getState(d) = "Ready" THEN QRes(d, <<>>, TRUE, FALSE, TRUE)
    ELSE IF getState(d) = "Single" \/ getState(d) = "Continuous"
    THEN queryReadyMeasuring(d, now, fErrIn, rdStatus, rdData, wrStandby)
    ELSE QRes(setLastError(d, "NotMeasuring"), <<>>, FALSE, TRUE, TRUE))

\* DataRegs_t::computeLux(fError): the error flag
\* the error flag of computeLux without the test of the "new" bit
computeLuxError_validOnly(d) ==
    ~AlsStatus_getValid(d.m_rawStatus)

\* the error flag of a computeLux that takes darkness for a failure
computeLuxError_darkIsError(d) ==
    \/ ~AlsStatus_getValid(d.m_rawStatus) \/ ~AlsStatus_getNew(d.m_rawStatus)
    \/ d.m_data = <<0, 0, 0, 0>>

computeLuxError(d) ==
    ~AlsStatus_getValid(d.m_rawStatus) \/ ~AlsStatus_getNew(d.m_rawStatus)

\* DataRegs_t::getChan0, getChan1
\* getChan0 that takes the first byte of the pair for the high one
DataRegs_getChan0_highFirst(d) == d.m_data[3] * 256 + d.m_data[4]

DataRegs_getChan0(d) == d.m_data[4] * 256 + d.m_data[3]
DataRegs_getChan1(d) == d.m_data[2] * 256 + d.m_data[1]

\* The comparisons of luxComputation.  ratio is the float nearest to
\* ch1 / sum, with sum = ch0 + ch1 <= 131070 exact in float.  For a threshold
\* p/q in lowest terms a quotient other than p/q itself differs from it by at
\* least 1 / (q * sum) > 2^-22, many units in the last place of a float of
\* that size, so rounding the quotient never moves it across the threshold:
\* only the quotient equal to the threshold depends on how the constant is
\* rounded.
\*
\* ratio < 0.45f: both sides are the float nearest to 9/20
ratioBelow45(ch1, sum) == 100 * ch1 < 45 * sum

\* ratio < 0.64, a double constant.  The float nearest to 16/25 is
\* 10737418 / 2^24 = 0.63999998..., below the 64-bit double nearest to 0.64:
\* where double has 64 bits (wide) the quotient 16/25 itself compares less.
\* Where double has the width of float both sides are the same float.
ratioBelow64(wide, ch1, sum) ==
    IF wide THEN 100 * ch1 <= 64 * sum ELSE 100 * ch1 < 64 * sum

\* ratio < 0.85, a double constant.  The float nearest to 17/20 is
\* 14260634 / 2^24 = 0.85000002..., above the double nearest to 0.85: the
\* quotient 17/20 itself does not compare less, whatever the width of double.
ratioBelow85(ch1, sum) == 100 * ch1 < 85 * sum

\* DataRegs_t::luxComputation on a build whose double has 64 bits (wide) or
\* the width of float; the value is the real-number value of the expression
\* in units of 1/10000 lux, rounded down (the roundings of the float
\* operations, a few parts in 10^7, are not modelled)
luxComputation(wide, ch0, ch1, gain, iTime) ==
    LET sum == ch0 + ch1
        result == IF ratioBelow45(ch1, sum) THEN 17743 * ch0 + 11059 * ch1
                  ELSE IF ratioBelow64(wide, ch1, sum) THEN 42785 * ch0 - 19548 * ch1
                  ELSE IF ratioBelow85(ch1, sum) THEN 5926 * ch0 + 1185 * ch1
                  ELSE 0
    IN  IF sum = 0 THEN 0 ELSE (result * 100) \div (gain * iTime)

computeLux(wide, d) ==
    IF computeLuxError(d) THEN 0
    ELSE luxComputation(wide, DataRegs_getChan0(d), DataRegs_getChan1(d),
                        AlsStatus_getGain(d.m_rawStatus),
                        AlsMeasRate_getIntegration(d.m_rawMeasrate))

getLux(d) ==
    IF computeLuxError(d) THEN setLastError(d, "InvalidData") ELSE d

-----------------------------------------------------------------------------
(* The environment: the bus, the device, the caller *)

OkRead(bytes) == [res |-> "ok", data |-> bytes, got |-> Len(bytes)]

\* a read of n bytes that fails with r, after got bytes were made available
BadRead(r, bytes, got) == [res |-> r, data |-> bytes, got |-> got]

\* the ways a 1-byte read fails
ByteReadFailures ==
    {BadRead(r, <<0>>, 0) : r \in {"I2cReadRequest", "I2cReadShort"}}

\* the ways the 4-byte burst read fails; a short read delivers 2 bytes
DataReadFailures ==
    {BadRead("I2cReadShort", b, 2) : b \in DataBytes}
    \cup {BadRead(r, <<0, 0, 0, 0>>, 0) : r \in {"I2cReadLong"}}

WriteFailures == WriteResults \ {"ok"}

\* The bus answers to the transactions of one begin(): <<PART_ID read,
\* MANUFAC_ID read, reset write>>.  An answer after the first failure is never
\* asked for and is fixed.
BeginScripts ==
    {<<f, f, "ok">> : f \in ByteReadFailures}
    \cup {<<OkRead(<<id[1]>>), f, "ok">> : id \in IdBytes, f \in ByteReadFailures}
    \cup {<<OkRead(<<id[1]>>), OkRead(<<id[2]>>), w>> : id \in IdBytes, w \in WriteResults}

\* <<ALS_MEAS_RATE write, ALS_CONTR write>> of one startMeasurement()
StartScripts ==
    {<<f, "ok">> : f \in WriteFailures}
    \cup {<<"ok", w>> : w \in WriteResults}

\* the status bytes with which the device announces new, valid data (data
\* status bit 2 set, data invalid bit 7 clear)
ReadyBytes == {b \in StatusBytes : (b \div 4) % 2 = 1 /\ b \div 128 = 0}

\* <<ALS_STATUS read, data burst read, standby write>> of one queryReady(); the
\* device is asked for data only after it announced them
QueryScripts ==
    {<<f, OkRead(<<0, 0, 0, 0>>), "ok">> : f \in ByteReadFailures}
    \cup {<<OkRead(<<b>>), OkRead(<<0, 0, 0, 0>>), "ok">> : b \in StatusBytes \ ReadyBytes}
    \cup {<<OkRead(<<b>>), f, "ok">> : b \in ReadyBytes, f \in DataReadFailures}
    \cup {<<OkRead(<<b>>), OkRead(x), w>> : b \in ReadyBytes, x \in DataBytes, w \in WriteResults}

\* the device's ALS_CONTR after the transactions of l, starting from old
DevAfter(reg, old, l) ==
    LET ws == {i \in DOMAIN l : l[i].kind = "write" /\ l[i].reg = reg /\ l[i].res = "ok"}
    IN  IF ws = {} THEN old
        ELSE l[CHOOSE i \in ws : \A j \in ws : j <= i].val

NoCall == [op |-> "tick", pre |-> "Uninitialized", ret |-> FALSE, fError |-> FALSE,
           fSet |-> FALSE, fSingle |-> FALSE, cfg |-> <<0, 0, 0>>, lux |-> 0]

NoMeasurement == [mode |-> "none", got |-> 0]

\* meas after the call c with the transactions l: a startMeasurement that
\* made both its writes starts a measurement, a queryReady that returns true
\* delivers a result
MeasAfter(m, c, l) ==
    IF c.op = "startMeasurement" /\ Len(l) = 2 /\ l[2].res = "ok"
    THEN [mode |-> IF c.fSingle THEN "single" ELSE "continuous", got |-> 0]
    ELSE IF c.op = "queryReady" /\ c.ret
    THEN [m EXCEPT !.got = IF m.got < 2 THEN m.got + 1 ELSE 2]
    ELSE m

\* the effect of a public call: the instance, the clock, the record of the
\* call, the bus log, the history variables
Effect(d, clk, c, l, hf, cf) ==
    /\ drv' = d
    /\ clock' = clk
    /\ call' = c
    /\ log' = l
    /\ devContr' = DevAfter(ALS_CONTR, devContr, l)
    /\ hardFailed' = hf
    /\ cfgd' = cf
    /\ lastPoll' = IF \E i \in DOMAIN l : l[i].kind = "read" /\ l[i].reg = ALS_STATUS
                   THEN <<clk>> ELSE lastPoll
    /\ ncalls' = ncalls + 1
    /\ meas' = MeasAfter(meas, c, l)
    /\ img' = img

InitialConfig == <<kInitialGain, kInitialMeasurementRate, kInitialIntegrationTime>>

DoBegin(rdPart, rdManu, wrReset) ==
    \E r \in {begin(drv, clock, rdPart, rdManu, wrReset)} :
        Effect(r.d, r.clk,
               [NoCall EXCEPT !.op = "begin", !.pre = drv.m_state, !.ret = r.ret],
               r.log, IF r.ret THEN "no" ELSE hardFailed,
               IF r.cfg THEN InitialConfig ELSE cfgd)

DoEnd(wr) ==
    \E r \in {end(drv, wr)} :
        Effect(r.d, clock,
               [NoCall EXCEPT !.op = "end", !.pre = drv.m_state, !.ret = TRUE],
               r.log, hardFailed, cfgd)

DoReset(wr) ==
    \E r \in {reset(drv, <<>>, wr)} :
        Effect(r.d, clock,
               [NoCall EXCEPT !.op = "reset", !.pre = drv.m_state, !.ret = r.ret],
               r.log, hardFailed, cfgd)

DoConfigure(a) ==
    \E r \in {configure(drv, a[1], a[2], a[3])} :
        Effect(r.d, clock,
               [NoCall EXCEPT !.op = "configure", !.pre = drv.m_state, !.ret = r.ret,
                              !.cfg = a],
               r.log, hardFailed, IF r.ret THEN a ELSE cfgd)

DoStartMeasurement(fSingle, wrRate, wrContr, ubRet) ==
    \E r \in {startMeasurement(drv, clock, fSingle, wrRate, wrContr, ubRet)} :
        Effect(r.d, clock,
               [NoCall EXCEPT !.op = "startMeasurement", !.pre = drv.m_state,
                              !.ret = r.ret, !.fSingle = fSingle],
               r.log, hardFailed, cfgd)

\* the hard error a queryReady result r ends a measurement with, "no" if none
HardErrorOf(d, r) ==
    IF getState(d) \in {"Single", "Continuous"} /\ ~r.ret
       /\ getState(r.d) = "Uninitialized"
    THEN IF r.d.m_lastError = "TimedOut" THEN "timeout" ELSE "bus"
    ELSE "no"

DoQueryReady(fErrIn, rdStatus, rdData, wrStandby) ==
    \E r \in {queryReady(drv, clock, fErrIn, rdStatus, rdData, wrStandby)} :
        Effect(r.d, clock,
               [NoCall EXCEPT !.op = "queryReady", !.pre = drv.m_state, !.ret = r.ret,
                              !.fError = r.fError, !.fSet = r.fSet],
               r.log, IF HardErrorOf(drv, r) # "no" THEN HardErrorOf(drv, r)
                      ELSE hardFailed, cfgd)

\* getLux() on either build
DoGetLux ==
    \E wide \in BOOLEAN :
        Effect(getLux(drv), clock,
               [NoCall EXCEPT !.op = "getLux", !.pre = drv.m_state,
                              !.ret = ~computeLuxError(drv),
                              !.lux = computeLux(wide, drv)],
               <<>>, hardFailed, cfgd)

\* time passes: the caller waits dt
DoTick(dt) ==
    /\ clock' = clock + dt
    /\ call' = NoCall
    /\ log' = <<>>
    /\ UNCHANGED <<drv, devContr, hardFailed, cfgd, lastPoll, ncalls, meas, img>>

-----------------------------------------------------------------------------
(* Specification Spec: a caller that makes any call at any time *)

\* the members after construction of an instance of static storage duration
\* (README "The global object", ltr_329als_simple.ino gLtr): the constructor
\* sets m_wire and m_lastError, the register images construct to 0, all other
\* members are zero-initialized.  m_userRate and m_userIntegration, which no
\* code assigns, range over UserMembers.
InitDrv(ur, ui) ==
    [m_state |-> "Uninitialized", m_lastError |-> "Success",
     m_control |-> 0, m_measrate |-> 0, m_status |-> 0,
     m_userRate |-> ur, m_userIntegration |-> ui,
     m_startTime |-> 0, m_pollTime |-> 0, m_delay |-> 0,
     m_data |-> <<0, 0, 0, 0>>, m_rawStatus |-> 0, m_rawMeasrate |-> 0,
     m_partid |-> 0, m_manufacid |-> 0]

\* no codec operation was applied
NoImage == [op |-> "none", v |-> 0, arg |-> <<>>, res |-> <<>>]

InitAt(t) ==
    /\ \E u \in UserMembers : drv = InitDrv(u[1], u[2])
    /\ clock = t
    /\ call = NoCall
    /\ log = <<>>
    /\ devContr = 0
    /\ hardFailed = "no"
    /\ cfgd = <<0, 0, 0>>
    /\ lastPoll = <<>>
    /\ ncalls = 0
    /\ meas = NoMeasurement
    /\ img = NoImage

InitCommon == InitAt(0 - WrapLead)

Init == InitCommon /\ pc = "free"

\* the caller of Spec: at most MaxCalls calls
Free == pc = "free" /\ pc' = pc /\ ncalls < MaxCalls

\* Time passes while a measurement is in progress.  (Outside a measurement the
\* driver reads the clock only to store it: calls made then fall into the same
\* millisecond, and begin() itself lets 110 ms pass.)
Tick ==
    /\ pc = "free" /\ pc' = pc
    /\ getState(drv) \in {"Single", "Continuous"}
    /\ \E dt \in Delays : clock + dt <= MaxClock /\ DoTick(dt)

Begin ==
    /\ Free
    /\ clock + getInitialDelayMs + getWakeupDelayMs <= MaxClock
    /\ \E sc \in BeginScripts : DoBegin(sc[1], sc[2], sc[3])

End == Free /\ \E wr \in WriteResults : DoEnd(wr)

Reset == Free /\ \E wr \in WriteResults : DoReset(wr)

Configure == Free /\ \E a \in ConfigArgs : DoConfigure(a)

StartMeasurement ==
    /\ Free
    /\ \E fSingle \in BOOLEAN, sc \in StartScripts, ubRet \in BOOLEAN :
          DoStartMeasurement(fSingle, sc[1], sc[2], ubRet)

QueryReady ==
    /\ Free
    /\ \E fErrIn \in BOOLEAN, sc \in QueryScripts :
          DoQueryReady(fErrIn, sc[1], sc[2], sc[3])

GetLux == Free /\ DoGetLux

Next ==
    \/ Tick
    \/ Begin
    \/ End
    \/ Reset
    \/ Configure
    \/ StartMeasurement
    \/ QueryReady
    \/ GetLux

Spec == Init /\ [][Next]_vars

-----------------------------------------------------------------------------
(* Specification SpecLoop: the sketch ltr_329als_simple.ino, setup() and then
   loop() again and again, on a bus whose transactions all succeed and a device
   whose status reports new valid data *)

\* delay(2000) at the end of loop()
LoopDelayMs == 2000

GoodId == <<161, 5>>

InitLoop == InitCommon /\ pc = "setup"

\* setup(): begin(), printFailure() never returns
LoopSetup ==
    /\ pc = "setup"
    /\ DoBegin(OkRead(<<GoodId[1]>>), OkRead(<<GoodId[2]>>), "ok")
    /\ pc' = IF call'.ret THEN "start" ELSE "halt"

LoopStart ==
    /\ pc = "start"
    /\ \E ubRet \in BOOLEAN : DoStartMeasurement(TRUE, "ok", "ok", ubRet)
    /\ pc' = IF call'.ret THEN "poll" ELSE "halt"

\* time passes between two polls of the while loop
LoopTick ==
    /\ pc = "poll" /\ pc' = pc
    /\ \E dt \in Delays : clock + dt <= MaxClock /\ DoTick(dt)

\* one queryReady(fError) of the while loop; fError is a local without
\* initializer.  Polls within one millisecond repeat the first one.
LoopPoll ==
    /\ pc = "poll"
    /\ call.op # "queryReady"
    /\ \E fErrIn \in BOOLEAN, b \in ReadyBytes, x \in DataBytes :
          DoQueryReady(fErrIn, OkRead(<<b>>), OkRead(x), "ok")
    /\ pc' = IF call'.ret THEN "getLux" ELSE IF call'.fError THEN "halt" ELSE "poll"

LoopGetLux ==
    /\ pc = "getLux"
    /\ DoGetLux
    /\ pc' = "end"

LoopEnd ==
    /\ pc = "end"
    /\ DoEnd("ok")
    /\ pc' = "delay"

LoopDelay ==
    /\ pc = "delay"
    /\ DoTick(LoopDelayMs)
    /\ pc' = "start"

NextLoop ==
    \/ LoopSetup
    \/ LoopStart
    \/ LoopTick
    \/ LoopPoll
    \/ LoopGetLux
    \/ LoopEnd
    \/ LoopDelay

SpecLoop == InitLoop /\ [][NextLoop]_vars

-----------------------------------------------------------------------------
(* Specification SpecPoll: a caller that brings the driver up once, starts
   measurements and polls queryReady at times that are not multiples of the
   poll interval *)

\* <<ALS_STATUS read, data burst read, standby write>> of one queryReady() of
\* the polling caller: the status read fails, or the device answers every
\* transaction
PollScripts ==
    {<<BadRead("I2cReadRequest", <<0>>, 0), OkRead(<<0, 0, 0, 0>>), "ok">>}
    \cup {<<OkRead(<<b>>), OkRead(x), "ok">> : b \in StatusBytes, x \in DataBytes}

InitPoll == pc = "polling" /\ \E lead \in PollLeads : InitAt(0 - lead)

Polling == pc = "polling" /\ pc' = pc /\ ncalls < MaxPollCalls

PollBegin ==
    /\ Polling
    /\ ncalls = 0
    /\ DoBegin(OkRead(<<GoodId[1]>>), OkRead(<<GoodId[2]>>), "ok")

PollStart ==
    /\ Polling
    /\ getState(drv) = "Idle"
    /\ \E fSingle \in BOOLEAN : DoStartMeasurement(fSingle, "ok", "ok", FALSE)

\* the caller waits once between two calls
PollTick ==
    /\ pc = "polling" /\ pc' = pc
    /\ getState(drv) \in {"Single", "Continuous"}
    /\ call.op # "tick"
    /\ \E dt \in PollDelays :
          clock + dt - drv.m_startTime <= MaxElapsed /\ DoTick(dt)

PollQuery ==
    /\ Polling
    /\ ncalls > 0
    /\ \E sc \in PollScripts : DoQueryReady(FALSE, sc[1], sc[2], sc[3])

NextPoll ==
    \/ PollBegin
    \/ PollStart
    \/ PollTick
    \/ PollQuery

SpecPoll == InitPoll /\ [][NextPoll]_vars

-----------------------------------------------------------------------------
(* Specification SpecLive: a caller that starts one measurement and then keeps
   calling queryReady, with time passing between two calls, until a call
   returns true or reports an error *)

InitLive == pc = "live" /\ InitCommon

\* the last call was a queryReady that returned true or set fError to true
PollingEnded == call.op = "queryReady" /\ (call.ret \/ (call.fSet /\ call.fError))

LiveBegin ==
    /\ pc = "live" /\ pc' = pc
    /\ ncalls = 0
    /\ DoBegin(OkRead(<<GoodId[1]>>), OkRead(<<GoodId[2]>>), "ok")

LiveStart ==
    /\ pc = "live" /\ pc' = pc
    /\ call.op = "begin"
    /\ getState(drv) = "Idle"
    /\ \E fSingle \in BOOLEAN : DoStartMeasurement(fSingle, "ok", "ok", FALSE)

LiveTick ==
    /\ pc = "live" /\ pc' = pc
    /\ getState(drv) \in {"Single", "Continuous"}
    /\ call.op # "tick"
    /\ ~PollingEnded
    /\ \E dt \in Delays :
          clock + dt - drv.m_startTime <= MaxLiveElapsed /\ DoTick(dt)

LiveQuery ==
    /\ pc = "live" /\ pc' = pc
    /\ ncalls >= 2
    /\ ~PollingEnded
    /\ call.op # "queryReady" \/ getState(drv) \notin {"Single", "Continuous"}
    /\ \E sc \in QueryScripts : DoQueryReady(FALSE, sc[1], sc[2], sc[3])

NextLive ==
    \/ LiveBegin
    \/ LiveStart
    \/ LiveTick
    \/ LiveQuery

\* the caller keeps calling and the clock keeps advancing
SpecLive ==
    InitLive /\ [][NextLive]_vars /\ WF_vars(LiveTick) /\ WF_vars(LiveQuery)

-----------------------------------------------------------------------------
(* Specification SpecCfg: configure() with any arguments, before begin(), in
   state Idle and during a measurement *)

InitCfg == pc = "cfg" /\ InitCommon

CfgBegin ==
    /\ pc = "cfg" /\ pc' = pc
    /\ ncalls = 0
    /\ DoBegin(OkRead(<<GoodId[1]>>), OkRead(<<GoodId[2]>>), "ok")

CfgStart ==
    /\ pc = "cfg" /\ pc' = pc
    /\ call.op = "begin"
    /\ getState(drv) = "Idle"
    /\ \E fSingle \in BOOLEAN : DoStartMeasurement(fSingle, "ok", "ok", FALSE)

CfgConfigure ==
    /\ pc = "cfg" /\ pc' = pc
    /\ call.op # "configure"
    /\ \E g \in CfgGains, r \in CfgRates, t \in CfgTimes : DoConfigure(<<g, r, t>>)

NextCfg ==
    \/ CfgBegin
    \/ CfgStart
    \/ CfgConfigure

SpecCfg == InitCfg /\ [][NextCfg]_vars

-----------------------------------------------------------------------------
(* Specification SpecShot: a caller that brings the driver up, starts
   measurements, waits, asks for the result as often as it likes, and may
   call end() or reset() in between *)

\* <<ALS_STATUS read, data burst read, standby write>> of one queryReady() of
\* this caller: no data yet, data and a standby write that succeeds or fails
ShotScripts ==
    {<<OkRead(<<0>>), OkRead(<<0, 0, 0, 0>>), "ok">>}
    \cup {<<OkRead(<<b>>), OkRead(x), w>> :
              b \in ReadyBytes, x \in DataBytes, w \in {"ok", "I2cWriteFailed"}}

InitShot == pc = "shot" /\ InitCommon

Shot == pc = "shot" /\ pc' = pc /\ ncalls < MaxShotCalls

ShotBegin ==
    /\ Shot
    /\ ncalls = 0
    /\ DoBegin(OkRead(<<GoodId[1]>>), OkRead(<<GoodId[2]>>), "ok")

ShotStart ==
    /\ Shot
    /\ ncalls > 0
    /\ call.op # "startMeasurement"
    /\ \E fSingle \in BOOLEAN : DoStartMeasurement(fSingle, "ok", "ok", FALSE)

\* the caller waits once between two calls: one poll interval, or longer than
\* any integration time
ShotTick ==
    /\ pc = "shot" /\ pc' = pc
    /\ getState(drv) \in {"Single", "Continuous"}
    /\ call.op # "tick"
    /\ \E dt \in {PollInterval, 10 * PollInterval} :
          clock + dt - drv.m_startTime <= MaxElapsed /\ DoTick(dt)

ShotQuery ==
    /\ Shot
    /\ ncalls > 0
    /\ \E sc \in ShotScripts : DoQueryReady(FALSE, sc[1], sc[2], sc[3])

ShotEnd ==
    /\ Shot
    /\ call.op = "queryReady"
    /\ DoEnd("ok")

ShotReset ==
    /\ Shot
    /\ call.op = "queryReady"
    /\ DoReset("ok")

NextShot ==
    \/ ShotBegin
    \/ ShotStart
    \/ ShotTick
    \/ ShotQuery
    \/ ShotEnd
    \/ ShotReset

SpecShot == InitShot /\ [][NextShot]_vars

-----------------------------------------------------------------------------
(* Specification SpecCodec: the register images and the conversions of
   mcci_ltr_329als_regs.h on their own.  One operation is applied to a
   register image holding any byte; the driver instance is not involved. *)

InitCodec ==
    /\ pc = "codec"
    /\ \E u \in UserMembers : drv = InitDrv(u[1], u[2])
    /\ clock = 0
    /\ call = NoCall
    /\ log = <<>>
    /\ devContr = 0
    /\ hardFailed = "no"
    /\ cfgd = <<0, 0, 0>>
    /\ lastPoll = <<>>
    /\ ncalls = 0
    /\ meas = NoMeasurement
    /\ \E v \in Images : img = [NoImage EXCEPT !.v = v]

\* one codec operation op with arguments arg gives the results res
CodecStep(op, arg, res) ==
    /\ pc = "codec" /\ pc' = pc
    /\ img.op = "none"
    /\ img' = [img EXCEPT !.op = op, !.arg = arg, !.res = res]
    /\ UNCHANGED <<drv, clock, call, log, devContr, hardFailed, cfgd, lastPoll, ncalls,
                   meas>>

\* a setter of a field with mask fmask: the new image, the code put in the
\* field, the code the field's mask extracts afterwards
SetterRes(fmask, out, code) == <<out, code, fieldget(fmask, out)>>

CodecSetActive ==
    /\ img.op = "none"
    /\ \E f \in BOOLEAN :
           CodecStep("setActive", <<f>>,
                     SetterRes(ALS_CONTR_MODE, AlsContr_setActive(img.v, f), BoolToInt(f)))

CodecSetReset ==
    /\ img.op = "none"
    /\ \E f \in BOOLEAN :
           CodecStep("setReset", <<f>>,
                     SetterRes(ALS_CONTR_RESET, AlsContr_setReset(img.v, f), BoolToInt(f)))

CodecSetGain ==
    /\ img.op = "none"
    /\ \E g \in CfgGains :
           CodecStep("setGain", <<g>>,
                     SetterRes(ALS_CONTR_GAIN, AlsContr_setGain(img.v, g),
                               BitAnd(gainToBits(g), 7)))

CodecSetRate ==
    /\ img.op = "none"
    /\ \E r \in CfgRates :
           CodecStep("setRate", <<r>>,
                     SetterRes(ALS_MEAS_RATE_RATE, AlsMeasRate_setRate(img.v, r),
                               rateToBits(r)))

CodecSetIntegration ==
    /\ img.op = "none"
    /\ \E t \in CfgTimes :
           CodecStep("setIntegration", <<t>>,
                     SetterRes(ALS_MEAS_RATE_TIME, AlsMeasRate_setIntegration(img.v, t),
                               integrationToBits(t)))

CodecSetNew ==
    /\ img.op = "none"
    /\ \E f \in BOOLEAN :
           CodecStep("setNew", <<f>>,
                     SetterRes(ALS_STATUS_NEW, AlsStatus_setNew(img.v, f), BoolToInt(f)))

CodecSetValid ==
    /\ img.op = "none"
    /\ \E f \in BOOLEAN :
           CodecStep("setValid", <<f>>,
                     SetterRes(ALS_STATUS_INVALID, AlsStatus_setValid(img.v, f),
                               BoolToInt(~f)))

CodecStatusSetGain ==
    /\ img.op = "none"
    /\ \E g \in CfgGains :
           CodecStep("statusSetGain", <<g>>,
                     SetterRes(ALS_STATUS_GAIN, AlsStatus_setGain(img.v, g),
                               BitAnd(gainToBits(g), 7)))

\* AlsMeasRate_t(0).setRate(r).setIntegration(t), then getRate() and
\* getIntegration()
CodecBuild ==
    /\ img.op = "none"
    /\ img.v = 0
    /\ \E r \in CfgRates, t \in CfgTimes :
          \E m \in {AlsMeasRate_setIntegration(AlsMeasRate_setRate(0, r), t)} :
              CodecStep("build", <<r, t>>,
                        <<m, AlsMeasRate_getRate(m), AlsMeasRate_getIntegration(m)>>)

\* gainToBits, isGainValid and the way back, for the gain img.v
CodecGain ==
    /\ img.op = "none"
    /\ CodecStep("gain", <<img.v>>,
                 <<gainToBits(img.v), isGainValid(img.v), bitsToGain(gainToBits(img.v))>>)

\* bitsToGain for the 3-bit code img.v
CodecGainCode ==
    /\ img.op = "none"
    /\ img.v < 8
    /\ CodecStep("gainCode", <<img.v>>, <<bitsToGain(img.v)>>)

\* isRateValid and isIntegrationValid
CodecValid ==
    /\ img.op = "none"
    /\ img.v = 0
    /\ \E x \in ValidityInputs :
           CodecStep("valid", <<x>>, <<isRateValid(x), isIntegrationValid(x)>>)

\* luxComputation on either build
CodecLux ==
    /\ img.op = "none"
    /\ img.v = 0
    /\ \E wide \in BOOLEAN, c \in LuxChannels, g \in LuxSettings :
           CodecStep("lux", <<c[1], c[2], g[1], g[2]>>,
                     <<luxComputation(wide, c[1], c[2], g[1], g[2])>>)

\* DataRegs_t::computeLux on a capture buffer whose status byte is img.v
CodecComputeLux ==
    /\ img.op = "none"
    /\ \E wide \in BOOLEAN, c \in LuxCaptures :
           \E d \in {[InitDrv(0, 0) EXCEPT !.m_data = c[1], !.m_rawStatus = img.v,
                                           !.m_rawMeasrate = c[2]]} :
               CodecStep("computeLux", <<c[1], c[2]>>,
                         <<computeLuxError(d), computeLux(wide, d)>>)

\* the divisor of computeLux for the recorded status byte img.v and any
\* recorded measurement-rate byte: the gain and the integration time decoded
\* from them
CodecDivisor ==
    /\ img.op = "none"
    /\ \E m \in Images :
           CodecStep("divisor", <<img.v, m>>,
                     <<AlsStatus_getGain(img.v), AlsMeasRate_getIntegration(m)>>)

NextCodec ==
    \/ CodecSetActive
    \/ CodecSetReset
    \/ CodecSetGain
    \/ CodecSetRate
    \/ CodecSetIntegration
    \/ CodecSetNew
    \/ CodecSetValid
    \/ CodecStatusSetGain
    \/ CodecBuild
    \/ CodecGain
    \/ CodecGainCode
    \/ CodecValid
    \/ CodecLux
    \/ CodecComputeLux
    \/ CodecDivisor

SpecCodec == InitCodec /\ [][NextCodec]_vars

-----------------------------------------------------------------------------
(* Properties.  call and log describe the public call that produced the
   current state, drv is the instance after it. *)

Measuring == {"Single", "Continuous"}

NotRunning == {"Uninitialized", "End"}

\* a step that is a public call
IsCall == ncalls' = ncalls + 1

BusOk == \A i \in DOMAIN log : log[i].res = "ok"

BusFailed == \E i \in DOMAIN log : log[i].res # "ok"

\* the call read PART_ID and MANUFAC_ID, and they are those of an LTR-329ALS
IdsRead == Len(log) >= 2 /\ log[1].res = "ok" /\ log[2].res = "ok"

IdsMatch == log[1].data[1] \div 16 = 10 /\ log[2].data[1] = 5

\* the call is a queryReady in state Single or Continuous whose status read
\* shows data that is not both new and valid, more than twice the recorded
\* integration time after the start
TimeoutCase ==
    /\ call.op = "queryReady"
    /\ call.pre \in Measuring
    /\ Len(log) >= 1
    /\ log[1].kind = "read" /\ log[1].reg = ALS_STATUS /\ log[1].res = "ok"
    /\ ~((log[1].data[1] \div 4) % 2 = 1 /\ (log[1].data[1] \div 128) % 2 = 0)
    /\ clock - drv.m_startTime > 2 * DataRegs_getIntegrationTime(drv)

\* C1: a queryReady call in state Single or Continuous whose status read shows
\* data not both new and valid, with now - start above twice the recorded
\* integration time, returns false with fError true and last error TimedOut
\* and leaves the state Uninitialized; every queryReady call after it, until a
\* begin() returns true, returns false with fError true and last error
\* Uninitialized.
C1_Timeout ==
    /\ TimeoutCase =>
          /\ ~call.ret /\ call.fSet /\ call.fError
          /\ drv.m_lastError = "TimedOut"
          /\ drv.m_state = "Uninitialized"
    /\ (hardFailed = "timeout" /\ call.op = "queryReady" /\ ~TimeoutCase) =>
          /\ ~call.ret /\ call.fSet /\ call.fError
          /\ drv.m_lastError = "Uninitialized"

\* a queryReady call made after a measurement timed out
C1_Witness ==
    /\ hardFailed = "timeout"
    /\ call.op = "queryReady" /\ call.pre = "Uninitialized"
    /\ drv.m_lastError = "Uninitialized"

C3_fErrorAssigned ==
    call.op = "queryReady" =>
        /\ call.fSet
        /\ call.ret => ~call.fError
        /\ ~call.ret => (call.fError <=> drv.m_lastError # "Busy")

\* C4, as claimed: a startMeasurement in state Idle writes ALS_MEAS_RATE with
\* the rate code of the last successful configure(g, r, t) (that of 2000 ms for
\* a single-shot measurement) in bits 2:0 and the integration code of t in
\* bits 5:3, then ALS_CONTR with the gain code of g in bits 4:2 and the active
\* bit set; and the integration time recorded for the measurement is t.
C4_ConfigureCarried ==
    (call.op = "startMeasurement" /\ call.pre = "Idle" /\ cfgd # <<0, 0, 0>>) =>
        /\ Len(log) >= 1
        /\ log[1].kind = "write" /\ log[1].reg = ALS_MEAS_RATE
        /\ log[1].val % 8 = rateToBits(IF call.fSingle THEN 2000 ELSE cfgd[2])
        /\ (log[1].val \div 8) % 8 = integrationToBits(cfgd[3])
        /\ Len(log) >= 2 =>
              /\ log[2].kind = "write" /\ log[2].reg = ALS_CONTR
              /\ (log[2].val \div 4) % 8 = gainToBits(cfgd[1])
              /\ log[2].val % 2 = 1
        /\ drv.m_state \in Measuring => DataRegs_getIntegrationTime(drv) = cfgd[3]

\* C5, as claimed: a public call in which a bus transaction failed leaves the
\* driver in state Uninitialized.
C5_BusFailureUninitialized ==
    (call.op \in {"begin", "startMeasurement", "queryReady", "end", "reset"}
     /\ BusFailed) =>
        drv.m_state = "Uninitialized"

\* C6, as claimed: a begin() call in state End whose bus transactions all
\* succeed and that reads the ids of an LTR-329ALS returns true and leaves the
\* driver in state Idle.
C6_BeginAfterEnd ==
    (call.op = "begin" /\ call.pre = "End" /\ BusOk /\ IdsRead /\ IdsMatch) =>
        call.ret /\ drv.m_state = "Idle"

\* C7, as claimed: in the sketch, on a working bus and with a device that
\* reports new valid data, no call of setup() or loop() fails: printFailure()
\* is never reached, and every startSingleMeasurement returns true.
C7_CycleRepeats ==
    /\ pc # "halt"
    /\ call.op = "startMeasurement" => call.ret

\* C8: begin() called in state Idle, Single or Continuous returns true, leaves
\* every member of the instance unchanged, issues no bus transaction and takes
\* no time.
C8_BeginIdempotent ==
    [][(IsCall /\ call'.op = "begin" /\ drv.m_state \in {"Idle", "Single", "Continuous"}) =>
          /\ call'.ret
          /\ drv' = drv
          /\ log' = <<>> /\ devContr' = devContr
          /\ clock' = clock]_vars

\* begin() has been called during a measurement
C8_Witness ==
    call.op = "begin" /\ call.pre \in Measuring /\ call.ret

\* C9: a begin() call in state Uninitialized that read both id registers: if
\* they hold part number 0xA and manufacturer 0x05 and no bus transaction
\* failed, it returns true in state Idle; if either differs it returns false
\* with last error PartIdMismatch in state Uninitialized and has issued no
\* write.  A begin() call in state Uninitialized leaves the driver running only
\* if it read matching ids.
C9_BeginChecksId ==
    (call.op = "begin" /\ call.pre = "Uninitialized") =>
        /\ (IdsRead /\ IdsMatch /\ BusOk) => (call.ret /\ drv.m_state = "Idle")
        /\ (IdsRead /\ ~IdsMatch) =>
              /\ ~call.ret
              /\ drv.m_lastError = "PartIdMismatch"
              /\ drv.m_state = "Uninitialized"
              /\ \A i \in DOMAIN log : log[i].kind = "read"
        /\ drv.m_state \notin NotRunning => (IdsRead /\ IdsMatch)

\* begin() has refused a device with other ids
C9_Witness ==
    /\ call.op = "begin" /\ call.pre = "Uninitialized"
    /\ IdsRead /\ ~IdsMatch
    /\ drv.m_lastError = "PartIdMismatch"

\* C10: startMeasurement and queryReady called in state Uninitialized or End
\* return false with last error Uninitialized, queryReady with fError set to
\* true; the state is the one before the call and the bus log is empty.
C10_NotRunning ==
    (call.op \in {"startMeasurement", "queryReady"} /\ call.pre \in NotRunning) =>
        /\ ~call.ret
        /\ drv.m_lastError = "Uninitialized"
        /\ drv.m_state = call.pre
        /\ log = <<>>
        /\ call.op = "queryReady" => (call.fSet /\ call.fError)

\* queryReady has been called after end()
C10_Witness ==
    call.op = "queryReady" /\ call.pre = "End" /\ ~call.ret

\* C11: queryReady called in state Idle returns false with fError set to true
\* and last error NotMeasuring; the state is still Idle and the bus log is
\* empty.
C11_IdleNotMeasuring ==
    (call.op = "queryReady" /\ call.pre = "Idle") =>
        /\ ~call.ret
        /\ call.fSet /\ call.fError
        /\ drv.m_lastError = "NotMeasuring"
        /\ drv.m_state = "Idle"
        /\ log = <<>>

\* queryReady has been called in state Idle
C11_Witness ==
    call.op = "queryReady" /\ call.pre = "Idle" /\ drv.m_lastError = "NotMeasuring"

\* C12: from a queryReady call that ended a measurement in state Uninitialized
\* (failed status read, failed burst read, failed standby write, timeout)
\* until a begin() call returns true, the driver is not running, no queryReady
\* call returns true and no startMeasurement call returns true.
C12_HardErrorSticks ==
    hardFailed # "no" =>
        /\ drv.m_state \in NotRunning
        /\ call.op \in {"queryReady", "startMeasurement"} => ~call.ret

\* startMeasurement has been refused after a bus failure in queryReady
C12_Witness ==
    /\ hardFailed = "bus"
    /\ call.op = "startMeasurement" /\ call.pre = "Uninitialized"
    /\ ~call.ret

\* C13: a queryReady call made in state Single or Continuous while the time
\* elapsed since the start of the measurement is less than the integration
\* time recorded with it returns false, assigns fError = false, sets the last
\* error to Busy, leaves the state unchanged and issues no bus transaction.
C13_BusyBeforeIntegration ==
    [][(/\ IsCall
        /\ call'.op = "queryReady"
        /\ drv.m_state \in Measuring
        /\ clock - drv.m_startTime < DataRegs_getIntegrationTime(drv))
       => /\ ~call'.ret
          /\ call'.fSet /\ ~call'.fError
          /\ drv'.m_lastError = "Busy"
          /\ drv'.m_state = drv.m_state
          /\ log' = <<>>]_vars

C13_Witness ==
    /\ call.op = "queryReady"
    /\ call.pre \in Measuring
    /\ drv.m_state = call.pre
    /\ clock - drv.m_startTime >= PollInterval
    /\ clock - drv.m_startTime < DataRegs_getIntegrationTime(drv)
    /\ drv.m_pollTime = clock - PollInterval
    /\ drv.m_lastError = "Busy"
    /\ ~call.ret /\ call.fSet /\ ~call.fError
    /\ log = <<>>

\* the transactions of l that read ALS_STATUS
StatusReads(l) == {i \in DOMAIN l : l[i].kind = "read" /\ l[i].reg = ALS_STATUS}

\* a step that is a queryReady call made less than the poll interval after the
\* previous read of ALS_STATUS
IsEarlyQuery ==
    /\ IsCall
    /\ call'.op = "queryReady"
    /\ lastPoll # <<>>
    /\ clock' - lastPoll[1] < PollInterval

AnswersBusy ==
    /\ ~call'.ret
    /\ call'.fSet /\ ~call'.fError
    /\ drv'.m_lastError = "Busy"
    /\ log' = <<>>

\* C14 as stated: two reads of ALS_STATUS are never issued less than 10 ms
\* apart, and every queryReady call made less than 10 ms after the previous
\* read of ALS_STATUS returns false with fError = false and last error Busy,
\* without bus traffic.
C14_EarlyQueryBusy ==
    [][IsEarlyQuery => StatusReads(log') = {} /\ AnswersBusy]_vars

\* C14: two reads of ALS_STATUS are never issued less than 10 ms apart; a
\* queryReady call made less than 10 ms after the previous read of ALS_STATUS
\* issues no bus transaction, and when the driver is still in state Single or
\* Continuous it returns false with fError = false and last error Busy.
C14_PollRateLimit ==
    [][IsEarlyQuery =>
          /\ StatusReads(log') = {}
          /\ log' = <<>>
          /\ drv.m_state \in Measuring => AnswersBusy]_vars

C14_Witness ==
    /\ call.op = "queryReady"
    /\ call.pre \in Measuring
    /\ lastPoll # <<>>
    /\ clock - lastPoll[1] < PollInterval
    /\ clock - drv.m_startTime >= DataRegs_getIntegrationTime(drv)
    /\ drv.m_lastError = "Busy"
    /\ ~call.ret /\ call.fSet /\ ~call.fError
    /\ log = <<>>

\* the status byte b shows data that are new and valid
StatusReady(b) == (b \div 4) % 2 = 1 /\ (b \div 128) % 2 = 0

\* a step that is a queryReady call in state Single or Continuous
IsPoll == IsCall /\ call'.op = "queryReady" /\ drv.m_state \in Measuring

\* C15: the decisions of a queryReady call in state Single or Continuous are
\* those of the true elapsed times, whether or not the millisecond counter
\* wrapped since the start or the last poll: the call issues no bus
\* transaction exactly when less than the integration time has elapsed since
\* the start or less than 10 ms since the poll time, and a status read that
\* shows no new valid data ends in TimedOut exactly when more than twice the
\* integration time has elapsed since the start; a begin() that brings the
\* driver up returns after the initial and the wakeup delay.
C15_WrapSafe ==
    [][/\ IsPoll =>
            /\ log' = <<>> <=>
                  \/ clock - drv.m_startTime < DataRegs_getIntegrationTime(drv)
                  \/ clock - drv.m_pollTime < PollInterval
            /\ (log' # <<>> /\ log'[1].res = "ok" /\ ~StatusReady(log'[1].data[1])) =>
                  (drv'.m_lastError = "TimedOut" <=>
                      clock - drv.m_startTime > 2 * DataRegs_getIntegrationTime(drv))
            /\ drv'.m_lastError = "TimedOut" =>
                  log' # <<>> /\ log'[1].res = "ok" /\ ~StatusReady(log'[1].data[1])
       /\ (IsCall /\ call'.op = "begin" /\ call'.pre = "Uninitialized" /\ call'.ret) =>
            clock' = clock + getInitialDelayMs + getWakeupDelayMs]_vars

\* the counter wrapped between the start of the measurement and a poll that
\* timed out
C15_Witness ==
    /\ call.op = "queryReady"
    /\ call.pre \in Measuring
    /\ drv.m_startTime < 0 /\ clock >= 0
    /\ drv.m_pollTime = clock
    /\ clock - drv.m_startTime > 2 * DataRegs_getIntegrationTime(drv)
    /\ drv.m_lastError = "TimedOut"

\* a step that is a queryReady call in state st, made when the integration
\* time and the poll interval have elapsed, whose status read shows new and
\* valid data and whose bus transactions all succeed
IsCompletion(st) ==
    /\ IsCall
    /\ call'.op = "queryReady"
    /\ drv.m_state = st
    /\ clock - drv.m_startTime >= DataRegs_getIntegrationTime(drv)
    /\ clock - drv.m_pollTime >= PollInterval
    /\ \A i \in DOMAIN log' : log'[i].res = "ok"
    /\ log' # <<>> => StatusReady(log'[1].data[1])

\* the first two transactions of l are a read of ALS_STATUS and a read of the
\* four data registers
ReadsStatusAndData(l) ==
    /\ Len(l) >= 2
    /\ l[1].kind = "read" /\ l[1].reg = ALS_STATUS
    /\ l[2].kind = "read" /\ l[2].reg = ALS_DATA_CH1_0 /\ Len(l[2].data) = 4

\* C16: a queryReady call in state Single whose status read shows new and valid
\* data and whose burst read and standby write succeed returns true; the
\* capture buffer then holds the 4 bytes read and the status byte just read,
\* the one write of the call goes to ALS_CONTR with the active bit clear and
\* the gain field of the control image, and the state is Idle.
C16_SingleCompletion ==
    [][IsCompletion("Single") =>
          /\ call'.ret
          /\ Len(log') = 3
          /\ ReadsStatusAndData(log')
          /\ drv'.m_data = log'[2].data
          /\ drv'.m_rawStatus = log'[1].data[1]
          /\ log'[3].kind = "write" /\ log'[3].reg = ALS_CONTR
          /\ ~AlsContr_getActive(log'[3].val)
          /\ fieldget(ALS_CONTR_GAIN, log'[3].val) = fieldget(ALS_CONTR_GAIN, drv.m_control)
          /\ drv'.m_control = log'[3].val
          /\ drv'.m_state = "Idle"]_vars

\* a single measurement made with a gain other than 1 has completed
C16_Witness ==
    /\ call.op = "queryReady"
    /\ call.pre = "Single"
    /\ call.ret
    /\ Len(log) = 3
    /\ StatusReady(log[1].data[1])
    /\ drv.m_data = log[2].data /\ drv.m_data \in DataBytes
    /\ drv.m_rawStatus = log[1].data[1]
    /\ log[3].reg = ALS_CONTR /\ log[3].res = "ok"
    /\ fieldget(ALS_CONTR_GAIN, log[3].val) # 0
    /\ drv.m_state = "Idle"

\* C17: a queryReady call in state Continuous whose status read shows new and
\* valid data and whose burst read succeeds returns true, stays in Continuous,
\* issues the two reads and no write, and sets the start and the poll time to
\* the time of the call; a queryReady call that follows it before one
\* integration time has elapsed returns false with fError = false and last
\* error Busy, without bus traffic.
C17_ContinuousCompletion ==
    [][/\ IsCompletion("Continuous") =>
            /\ call'.ret
            /\ drv'.m_state = "Continuous"
            /\ Len(log') = 2
            /\ ReadsStatusAndData(log')
            /\ drv'.m_data = log'[2].data
            /\ drv'.m_rawStatus = log'[1].data[1]
            /\ drv'.m_startTime = clock /\ drv'.m_pollTime = clock
            /\ lastPoll' = <<drv'.m_startTime>>
       /\ (/\ IsCall
           /\ call'.op = "queryReady"
           /\ drv.m_state = "Continuous"
           /\ lastPoll = <<drv.m_startTime>>
           /\ clock - drv.m_startTime < DataRegs_getIntegrationTime(drv)) =>
            AnswersBusy /\ drv'.m_state = "Continuous"]_vars

\* the call after a continuous completion, made before the next integration
\* time has elapsed
C17_Witness ==
    /\ call.op = "queryReady"
    /\ call.pre = "Continuous"
    /\ drv.m_state = "Continuous"
    /\ drv.m_data \in DataBytes
    /\ lastPoll = <<drv.m_startTime>>
    /\ clock - drv.m_startTime >= PollInterval
    /\ clock - drv.m_startTime < DataRegs_getIntegrationTime(drv)
    /\ ~call.ret /\ call.fSet /\ ~call.fError
    /\ drv.m_lastError = "Busy"
    /\ log = <<>>

\* C18: after a startMeasurement that returned true, a caller that keeps
\* calling queryReady while the clock advances eventually gets a call that
\* returns true or sets fError to true, whatever the device and the bus
\* answer.
C18_PollingEnds ==
    (call.op = "startMeasurement" /\ call.ret) ~> PollingEnded

\* polling ended by the timeout, after answers of "busy"
C18_Witness ==
    /\ PollingEnded
    /\ call.pre \in Measuring
    /\ ncalls >= 4
    /\ ~call.ret
    /\ drv.m_lastError = "TimedOut"
    /\ drv.m_state = "Uninitialized"

\* the request a = <<g, r, t>> is one that configure() has to reject
CfgInvalid(a) ==
    \/ a[1] \notin {1, 2, 4, 8, 48, 96}
    \/ a[2] \notin {50, 100, 200, 500, 1000, 2000}
    \/ a[3] \notin {50, 100, 150, 200, 250, 300, 350, 400}
    \/ a[2] < a[3]

IsGetLux == IsCall /\ call'.op = "getLux"

\* C20: when the status byte recorded with the captured data does not show
\* both valid and new, getLux returns 0 and sets the last error to
\* InvalidData; when it shows both, getLux returns the lux computed from the
\* captured channels, gain and integration time and changes nothing in the
\* driver; it issues no bus transaction.
C20_GetLuxContract ==
    [][IsGetLux =>
          /\ log' = <<>>
          /\ IF StatusReady(drv.m_rawStatus)
             THEN /\ \E wide \in BOOLEAN :
                        call'.lux =
                            luxComputation(wide,
                                           DataRegs_getChan0(drv), DataRegs_getChan1(drv),
                                           AlsStatus_getGain(drv.m_rawStatus),
                                           AlsMeasRate_getIntegration(drv.m_rawMeasrate))
                  /\ drv' = drv
             ELSE /\ call'.lux = 0
                  /\ drv' = [drv EXCEPT !.m_lastError = "InvalidData"]]_vars

\* getLux returned the lux of a completed measurement and left the last error
\* alone
C20_Witness ==
    /\ call.op = "getLux"
    /\ StatusReady(drv.m_rawStatus)
    /\ drv.m_data \in DataBytes
    /\ call.lux > 0
    /\ drv.m_lastError # "InvalidData"

ValidRates == {50, 100, 200, 500, 1000, 2000}

ValidTimes == {50, 100, 150, 200, 250, 300, 350, 400}

\* C21: for every valid rate r and every valid integration time t, the image
\* AlsMeasRate_t(0).setRate(r).setIntegration(t) has getRate() = r and
\* getIntegration() = t, with the code of r in bits 2:0 and the code of t in
\* bits 5:3 of the byte.
C21_RoundTrip ==
    (img.op = "build" /\ img.arg[1] \in ValidRates /\ img.arg[2] \in ValidTimes) =>
        /\ img.res[2] = img.arg[1]
        /\ img.res[3] = img.arg[2]
        /\ img.res[1] % 8 = rateToBits(img.arg[1])
        /\ (img.res[1] \div 8) % 8 = integrationToBits(img.arg[2])
        /\ img.res[1] \div 64 = 0

\* the mask of the field that the setter op writes
MaskOf(op) ==
    CASE op = "setActive" -> ALS_CONTR_MODE
      [] op = "setReset" -> ALS_CONTR_RESET
      [] op = "setGain" -> ALS_CONTR_GAIN
      [] op = "setRate" -> ALS_MEAS_RATE_RATE
      [] op = "setIntegration" -> ALS_MEAS_RATE_TIME
      [] op = "setNew" -> ALS_STATUS_NEW
      [] op = "setValid" -> ALS_STATUS_INVALID
      [] op = "statusSetGain" -> ALS_STATUS_GAIN

Setters ==
    {"setActive", "setReset", "setGain", "setRate", "setIntegration",
     "setNew", "setValid", "statusSetGain"}

\* C22: for every image byte v, every field and every code c its setter can
\* produce, the setter leaves the bits of v outside the field's mask
\* unchanged and the field then decodes to c, whatever code the field of v
\* held before.
C22_FieldSet ==
    img.op \in Setters =>
        /\ BitAnd(img.res[1], BitNot8(MaskOf(img.op))) = BitAnd(img.v, BitNot8(MaskOf(img.op)))
        /\ img.res[3] = img.res[2]

\* the gain table, <<gain, code>>
GainTable == {<<1, 0>>, <<2, 1>>, <<4, 2>>, <<8, 3>>, <<48, 6>>, <<96, 7>>}

\* C23: each gain g of the table has the code of the table, is valid and
\* bitsToGain(gainToBits(g)) = g; every other value in 0..255 is not valid;
\* every 3-bit code that is not in the table decodes to gain 1.
C23_GainTable ==
    /\ img.op = "gain" =>
          IF \E p \in GainTable : p[1] = img.arg[1]
          THEN /\ <<img.arg[1], img.res[1]>> \in GainTable
               /\ img.res[2]
               /\ img.res[3] = img.arg[1]
          ELSE ~img.res[2]
    /\ img.op = "gainCode" =>
          IF \E p \in GainTable : p[2] = img.arg[1]
          THEN <<img.res[1], img.arg[1]>> \in GainTable
          ELSE img.res[1] = 1

C23_Witness ==
    /\ img.op = "gain"
    /\ img.arg = <<48>>
    /\ img.res = <<6, TRUE, 48>>

\* C24: isRateValid(v) holds exactly for v in {50,100,200,500,1000,2000} and
\* isIntegrationValid(v) exactly for v in {50,100,...,400}: 0, values between
\* two entries, values above the largest entry and values that are an entry
\* only after truncation to 16 bits are not valid.
C24_ValidityExact ==
    img.op = "valid" =>
        /\ img.res[1] <=> img.arg[1] \in ValidRates
        /\ img.res[2] <=> img.arg[1] \in ValidTimes

\* a value that is a rate and an integration time after truncation only
C24_Witness ==
    /\ img.op = "valid"
    /\ img.arg[1] > 65535
    /\ img.arg[1] % 65536 \in ValidRates \cap ValidTimes
    /\ img.res = <<FALSE, FALSE>>

\* the lux of C25 for the counts ch0, ch1 with ch0 + ch1 > 0, in units of
\* 1/10000 lux, rounded down
PiecewiseLux(ch0, ch1, gain, iTime) ==
    LET sum == ch0 + ch1
        L == IF 100 * ch1 < 45 * sum THEN 17743 * ch0 + 11059 * ch1
             ELSE IF 100 * ch1 < 64 * sum THEN 42785 * ch0 - 19548 * ch1
             ELSE IF 100 * ch1 < 85 * sum THEN 5926 * ch0 + 1185 * ch1
             ELSE 0
    IN  (L * 100) \div (gain * iTime)

\* C25: for ch0 + ch1 > 0 and ratio = ch1 / (ch0 + ch1), luxComputation
\* returns L x 100 / (gain x integration time) with L = 1.7743 ch0 + 1.1059 ch1
\* for ratio < 0.45, 4.2785 ch0 - 1.9548 ch1 for 0.45 <= ratio < 0.64,
\* 0.5926 ch0 + 0.1185 ch1 for 0.64 <= ratio < 0.85 and 0 for ratio >= 0.85;
\* (100, 0, 1, 100) gives 177.43 and (1000, 100, 4, 200) gives 235.611.
C25_PiecewiseLux ==
    (img.op = "lux" /\ img.arg[1] + img.arg[2] > 0) =>
        /\ img.res[1] = PiecewiseLux(img.arg[1], img.arg[2], img.arg[3], img.arg[4])
        /\ img.arg = <<100, 0, 1, 100>> => img.res[1] = 1774300
        /\ img.arg = <<1000, 100, 4, 200>> => img.res[1] \div 10 = 235611

\* C26: with both channel counts 0, luxComputation returns 0 for every gain
\* and integration time, and computeLux on a capture whose status byte shows
\* valid and new data returns 0 with fError = false.
C26_Dark ==
    /\ (img.op = "lux" /\ img.arg[1] = 0 /\ img.arg[2] = 0) => img.res = <<0>>
    /\ (img.op = "computeLux" /\ img.arg[1] = <<0, 0, 0, 0>> /\ StatusReady(img.v)) =>
          img.res = <<FALSE, 0>>

\* computeLux on a dark capture made with gain 96
C26_Witness ==
    /\ img.op = "computeLux"
    /\ img.arg[1] = <<0, 0, 0, 0>>
    /\ StatusReady(img.v)
    /\ AlsStatus_getGain(img.v) = 96
    /\ img.res = <<FALSE, 0>>

\* C27: after end() the driver is not running; called in state Idle, Single or
\* Continuous, end() issues one bus transaction, a write of ALS_CONTR with the
\* active bit clear, and leaves the state End when the write succeeds and
\* Uninitialized when it fails.
C27_EndStops ==
    [][(IsCall /\ call'.op = "end") =>
          /\ drv'.m_state \in NotRunning
          /\ drv.m_state \in {"Idle", "Single", "Continuous"} =>
                /\ Len(log') = 1
                /\ log'[1].kind = "write" /\ log'[1].reg = ALS_CONTR
                /\ ~AlsContr_getActive(log'[1].val)
                /\ drv'.m_state = IF log'[1].res = "ok" THEN "End" ELSE "Uninitialized"]_vars

\* end() stopped a measurement
C27_Witness ==
    /\ call.op = "end"
    /\ call.pre \in Measuring
    /\ Len(log) = 1 /\ log[1].res = "ok"
    /\ devContr % 2 = 0
    /\ drv.m_state = "End"

\* C28: a startMeasurement call whose write of ALS_MEAS_RATE or of ALS_CONTR
\* fails returns false with last error I2cWriteFailed or
\* I2cWriteBufferFailed, and the state is not Single or Continuous.
C28_StartWriteFailure ==
    (call.op = "startMeasurement" /\ BusFailed) =>
        /\ ~call.ret
        /\ drv.m_lastError \in {"I2cWriteFailed", "I2cWriteBufferFailed"}
        /\ drv.m_state \notin Measuring

\* C29: configure() with valid arguments, called in state Single or
\* Continuous, returns false with last error Busy, issues no bus transaction
\* and changes nothing else: the state, the control image, the
\* measurement-rate image and the capture buffer are as before.
C29_ConfigureBusy ==
    [][(/\ IsCall
        /\ call'.op = "configure"
        /\ drv.m_state \in Measuring
        /\ ~CfgInvalid(call'.cfg)) =>
          /\ ~call'.ret
          /\ drv'.m_lastError = "Busy"
          /\ drv'.m_state = drv.m_state
          /\ drv'.m_control = drv.m_control
          /\ drv'.m_measrate = drv.m_measrate
          /\ drv'.m_data = drv.m_data
          /\ drv'.m_rawStatus = drv.m_rawStatus
          /\ drv'.m_rawMeasrate = drv.m_rawMeasrate
          /\ drv' = [drv EXCEPT !.m_lastError = "Busy"]
          /\ log' = <<>>
          /\ devContr' = devContr]_vars

\* a request for another gain was refused during a measurement
C29_Witness ==
    /\ call.op = "configure"
    /\ call.pre \in Measuring
    /\ ~CfgInvalid(call.cfg)
    /\ call.cfg[1] # AlsContr_getGain(drv.m_control)
    /\ ~call.ret
    /\ drv.m_lastError = "Busy"
    /\ drv.m_state = call.pre
    /\ log = <<>>

\* the transactions of l that write to the device
Writes(l) == {i \in DOMAIN l : l[i].kind = "write"}

\* C30: configure() issues no bus transaction and does not change the state,
\* in every state and for every argument; only startMeasurement writes
\* ALS_MEAS_RATE; the only write of a begin() is its last transaction, the
\* write of the reset bit alone to ALS_CONTR, and a begin() that initialised
\* the driver made that write and left the active bit of the device clear.
C30_ConfigureImagesOnly ==
    [][IsCall =>
          /\ call'.op = "configure" =>
                /\ log' = <<>>
                /\ drv'.m_state = drv.m_state
                /\ devContr' = devContr
          /\ (\E i \in Writes(log') : log'[i].reg = ALS_MEAS_RATE) =>
                call'.op = "startMeasurement"
          /\ call'.op = "begin" =>
                /\ \A i \in Writes(log') :
                      /\ i = Len(log')
                      /\ log'[i].reg = ALS_CONTR
                      /\ log'[i].val = ALS_CONTR_RESET
                /\ (call'.ret /\ drv.m_state = "Uninitialized") =>
                      /\ Writes(log') # {}
                      /\ ~AlsContr_getActive(devContr')]_vars

\* configure() changed the gain of the control image in state Idle and the
\* device was not touched
C30_Witness ==
    /\ call.op = "configure"
    /\ call.pre = "Idle"
    /\ call.ret
    /\ drv.m_state = "Idle"
    /\ AlsContr_getGain(drv.m_control) = 96
    /\ devContr = ALS_CONTR_RESET
    /\ log = <<>>

\* C31: a configure() call made while the driver is not running (state
\* Uninitialized or End) returns false with last error Uninitialized and
\* changes neither the control image nor the measurement-rate image.
C31_ConfigureNotRunning ==
    [][(IsCall /\ call'.op = "configure" /\ drv.m_state \in NotRunning) =>
          /\ ~call'.ret
          /\ drv'.m_lastError = "Uninitialized"
          /\ drv'.m_control = drv.m_control
          /\ drv'.m_measrate = drv.m_measrate]_vars

\* C32: within one public call a failed bus transaction is the last
\* transaction of the call, and no two transactions of the call are of the
\* same kind on the same register.
C32_NoRetry ==
    /\ \A i \in DOMAIN log : log[i].res # "ok" => i = Len(log)
    /\ \A i, j \in DOMAIN log :
          (log[i].kind = log[j].kind /\ log[i].reg = log[j].reg) => i = j

\* a queryReady call whose status read succeeded and whose burst read failed:
\* it ends there, without the standby write
C32_Witness ==
    /\ call.op = "queryReady"
    /\ call.pre = "Single"
    /\ ~call.ret
    /\ Len(log) = 2
    /\ log[1].reg = ALS_STATUS /\ log[1].res = "ok"
    /\ log[2].reg = ALS_DATA_CH1_0 /\ log[2].res # "ok"

\* the transactions of l that read a data register
DataReads(l) ==
    {i \in DOMAIN l : l[i].kind = "read"
                      /\ l[i].reg \in ALS_DATA_CH1_0 .. (ALS_DATA_CH1_0 + 3)}

\* C33: only queryReady reads the data registers; it does so in one read of 4
\* bytes at register 0x88, made right after a successful read of a status byte
\* with bit 2 (new) set and bit 7 (invalid) clear; after a successful burst
\* channel 1 is byte 0 + 256 x byte 1 and channel 0 is byte 2 + 256 x byte 3.
C33_CaptureGating ==
    /\ DataReads(log) # {} => call.op = "queryReady"
    /\ \A i \in DataReads(log) :
          /\ i = 2
          /\ log[i].reg = 136
          /\ log[i].val = 4
          /\ log[1].kind = "read" /\ log[1].reg = ALS_STATUS /\ log[1].res = "ok"
          /\ (log[1].data[1] \div 4) % 2 = 1
          /\ (log[1].data[1] \div 128) % 2 = 0
          /\ log[i].res = "ok" =>
                /\ DataRegs_getChan1(drv) = log[i].data[1] + 256 * log[i].data[2]
                /\ DataRegs_getChan0(drv) = log[i].data[3] + 256 * log[i].data[4]

\* a capture of the bytes 100, 0, 232, 3 after the status 0x74: channel 1 is
\* 100 and channel 0 is 1000
C33_Witness ==
    /\ call.op = "queryReady"
    /\ call.ret
    /\ log[1].data = <<116>>
    /\ log[2].data = <<100, 0, 232, 3>>
    /\ DataRegs_getChan1(drv) = 100
    /\ DataRegs_getChan0(drv) = 1000

\* the states a public call leaves the driver in
ObservableStates == {"Uninitialized", "End", "Idle", "Single", "Continuous"}

\* C34: after every public call, whatever the calls and the bus outcomes, the
\* driver state is Uninitialized, End, Idle, Single or Continuous; it is never
\* Ready, PowerOff, PowerOn or Initial.
C34_ObservableStates == drv.m_state \in ObservableStates

\* a queryReady call captured data in continuous mode, the point at which a
\* state Ready would be entered: the state is Continuous
C34_Witness ==
    /\ call.op = "queryReady"
    /\ call.pre = "Continuous"
    /\ call.ret
    /\ Len(log) = 2
    /\ drv.m_state = "Continuous"
    /\ drv.m_state \in ObservableStates

BoolOps == {"begin", "configure", "startMeasurement", "queryReady", "reset"}

\* the error that names why the call described by call and log failed: the
\* result of the failed bus transaction if there is one, otherwise the
\* condition the operation rejected
FailureCause ==
    IF BusFailed THEN log[Len(log)].res
    ELSE CASE call.op = "begin" -> "PartIdMismatch"
           [] call.op = "configure" ->
                  IF CfgInvalid(call.cfg) THEN "InvalidParameter" ELSE "Busy"
           [] call.op = "startMeasurement" ->
                  IF call.pre \in NotRunning THEN "Uninitialized" ELSE "Busy"
           [] call.op = "queryReady" ->
                  IF call.pre \in NotRunning THEN "Uninitialized"
                  ELSE IF call.pre \notin Measuring THEN "NotMeasuring"
                  ELSE IF TimeoutCase THEN "TimedOut"
                  ELSE "Busy"
           [] OTHER -> "Success"

\* C36: when begin, configure, startMeasurement, queryReady or reset returns
\* false, the last error is not Success and is the error of the condition that
\* made this call fail.
C36_FalseHasCause ==
    (call.op \in BoolOps /\ ~call.ret) =>
        /\ drv.m_lastError # "Success"
        /\ drv.m_lastError = FailureCause

\* a startMeasurement call during a continuous measurement was refused with
\* Busy
C36_Witness ==
    /\ call.op = "startMeasurement"
    /\ call.pre = "Continuous"
    /\ ~call.ret
    /\ log = <<>>
    /\ drv.m_lastError = "Busy"
    /\ FailureCause = "Busy"

\* the call made both writes of a startMeasurement
StartedNow == call'.op = "startMeasurement" /\ Len(log') = 2 /\ log'[2].res = "ok"

\* the call is a queryReady that issued the burst read
BurstNow == call'.op = "queryReady" /\ Len(log') >= 2 /\ log'[2].reg = ALS_DATA_CH1_0

\* C37: the 4 data bytes and the recorded status of the capture buffer change
\* only in a startMeasurement that made both its writes (bytes zeroed, status
\* invalid and not new) and in a queryReady whose burst read succeeded; a
\* queryReady whose burst read failed, a short read included, leaves both as
\* they were.
C37_CaptureFrame ==
    [][IsCall =>
          /\ (drv'.m_data # drv.m_data \/ drv'.m_rawStatus # drv.m_rawStatus) =>
                \/ /\ StartedNow
                   /\ drv'.m_data = <<0, 0, 0, 0>>
                   /\ ~AlsStatus_getValid(drv'.m_rawStatus)
                   /\ ~AlsStatus_getNew(drv'.m_rawStatus)
                \/ BurstNow /\ log'[2].res = "ok"
          /\ (BurstNow /\ log'[2].res # "ok") =>
                /\ drv'.m_data = drv.m_data
                /\ drv'.m_rawStatus = drv.m_rawStatus]_vars

\* C38: a getLux call made after a startMeasurement that started a measurement
\* and before any queryReady has returned true for it returns 0 and sets last
\* error InvalidData; a getLux call made after a queryReady has returned true
\* for the measurement started last does not set InvalidData.
C38_LuxFollowsQuery ==
    call.op = "getLux" =>
        /\ (meas.mode # "none" /\ meas.got = 0) =>
              /\ call.lux = 0
              /\ ~call.ret
              /\ drv.m_lastError = "InvalidData"
        /\ meas.got >= 1 => call.ret

\* the step is a queryReady call made after a queryReady has returned true for
\* the single measurement started last
IsFurtherQuery ==
    /\ IsCall
    /\ call'.op = "queryReady"
    /\ meas.mode = "single"
    /\ meas.got >= 1

\* C39 as stated: once queryReady has returned true for a single measurement,
\* every further queryReady call made before a startMeasurement starts a new
\* measurement returns false with fError true and last error NotMeasuring.
C39_OneResultNotMeasuring ==
    [][IsFurtherQuery =>
          /\ ~call'.ret
          /\ call'.fSet /\ call'.fError
          /\ drv'.m_lastError = "NotMeasuring"]_vars

\* C39: once queryReady has returned true for a single measurement, every
\* further queryReady call made before a startMeasurement starts a new
\* measurement returns false with fError true; its last error is NotMeasuring
\* when the driver is running and Uninitialized when end() or reset() has
\* stopped it.
C39_OneResult ==
    [][IsFurtherQuery =>
          /\ ~call'.ret
          /\ call'.fSet /\ call'.fError
          /\ drv'.m_lastError = IF drv.m_state \in NotRunning THEN "Uninitialized"
                                ELSE "NotMeasuring"
          /\ drv'.m_state = drv.m_state
          /\ log' = <<>>]_vars

\* the second queryReady after the result of a single measurement, in state
\* Idle
C39_Witness ==
    /\ call.op = "queryReady"
    /\ call.pre = "Idle"
    /\ meas = [mode |-> "single", got |-> 1]
    /\ ~call.ret
    /\ call.fError
    /\ drv.m_lastError = "NotMeasuring"

\* C40: for every status byte and every measurement-rate byte the decoded
\* gain is one of 1, 2, 4, 8, 48, 96 and the decoded integration time is one
\* of 50, 100, ..., 400, so the divisor gain x integration time of the lux
\* conversion is positive.
C40_DivisorPositive ==
    img.op = "divisor" =>
        /\ img.res[1] \in {1, 2, 4, 8, 48, 96}
        /\ img.res[2] \in ValidTimes
        /\ img.res[1] * img.res[2] > 0

\* the status byte 0x50 carries the gain code 5, which the hardware does not
\* define: the gain is 1; the measurement-rate byte 0xFF gives 400 ms
C40_Witness ==
    /\ img.op = "divisor"
    /\ img.arg = <<80, 255>>
    /\ img.res = <<1, 400>>

====
